---- MODULE Spec2Model ----
(***************************************************************************)
(* Model of the travel planner agent (travel_planner/agent/runner.py).     *)
(*                                                                         *)
(* TravelPlannerAgent.plan_trip is a bounded ReAct loop.  The model cuts   *)
(* it at its blocking calls: one action per piece of code that runs        *)
(* between two backend (LLMClient.generate_json) calls.  The position in   *)
(* the code is pc:                                                         *)
(*   idle      constructed, plan_trip not called yet                       *)
(*   decide    waiting for the decision reply            (runner.py:120)   *)
(*   execute   action resolved, about to be dispatched   (runner.py:171)   *)
(*   generate  waiting for an itinerary generation reply (runner.py:308)   *)
(*   critique  waiting for the critique reply            (runner.py:362)   *)
(*   correct   waiting for the correction reply          (runner.py:387)   *)
(*   done      plan_trip has returned (or raised) to its caller            *)
(*                                                                         *)
(* Python values: a dict is a function over its keys, a list a sequence,   *)
(* None the record None below.  Wall-clock time (execution_time) is not    *)
(* modelled.                                                               *)
(***************************************************************************)
EXTENDS Integers, Sequences, FiniteSets, TLC

\* ------------------------------------------------------------------ bounds
\* largest configured max_iterations explored
MaxIterations == 3
\* number of plan_trip calls made on one agent instance
MaxRuns == 2

\* ------------------------------------------------------- python-like values
None == [py |-> "None"]
EmptyDict == << >>
EmptyList == << >>

Has(d, k) == k \in DOMAIN d
Put(d, k, v) == [x \in (DOMAIN d) \cup {k} |-> IF x = k THEN v ELSE d[x]]

\* one log line: the fixed text of the f-string and its payload
Line(tag, arg) == [tag |-> tag, arg |-> arg]

\* an exception value: its class and str(e)
Exc(type, msg) == [type |-> type, msg |-> msg]

\* ------------------------------------------------------------ input domains
\* the request given to plan_trip
Request ==
  [destination |-> "Paris", start_date |-> "2025-12-20", end_date |-> "2025-12-22",
   profile |-> "couple", budget |-> "moyen", interests |-> <<"musees">>,
   pace |-> "calme", constraints |-> ""]

\* what LLMClient.generate / _generate_mistral raises on a fatal transport error:
\* always a RuntimeError, the kinds (timeout, HTTP status, exhausted retries)
\* differ by their message only
TransportErrors ==
  { Exc("RuntimeError", "Timeout Mistral AI"),
    Exc("RuntimeError", "Erreur HTTP Mistral AI"),
    Exc("RuntimeError", "Erreur reseau Mistral AI apres 5 tentatives") }

\* what LLMClient.generate_json raises when no repair stage parses the reply
ParseError == Exc("JSONParseError", "Impossible de parser JSON")

\* what a non-mapping reply (generate_json returned a list) raises on .get
AttributeError == Exc("AttributeError", "object has no attribute 'get'")

WeatherInputFull ==
  [lat |-> 48, lon |-> 2, start_date |-> "2025-12-20", end_date |-> "2025-12-22"]
WeatherInputZeroLat ==
  [lat |-> 0, lon |-> 2, start_date |-> "2025-12-20", end_date |-> "2025-12-22"]

\* decision replies that are JSON objects
Decisions ==
  { [thought |-> "t", action |-> "GEOCODE", action_input |-> [city |-> "Paris"]],
    [thought |-> "t", action |-> "GEOCODE", action_input |-> EmptyDict],
    [thought |-> "t", action |-> "GEOCODE", action_input |-> None],
    [thought |-> "t", action |-> "WEATHER", action_input |-> WeatherInputFull],
    [thought |-> "t", action |-> "WEATHER", action_input |-> WeatherInputZeroLat],
    [thought |-> "t", action |-> "PLAN", action_input |-> EmptyDict],
    [action |-> "FINISH", action_input |-> EmptyDict],
    [thought |-> "t", action |-> "SEARCH", action_input |-> EmptyDict],
    [thought |-> "t"] }

\* results of the geocode collaborator: None (not found) or a place
GeocodeResults ==
  { None,
    [name |-> "Paris", country |-> "France", lat |-> 48, lon |-> 2],
    [name |-> "Quito", country |-> "Ecuador", lat |-> 0, lon |-> 2] }

WeatherDay ==
  [date |-> "2025-12-20", temp_min |-> 3, temp_max |-> 9,
   precipitation_probability |-> 20, description |-> "Froid - Sec"]

\* results of the weather collaborator: a possibly empty list of days
WeatherResults == { EmptyList, <<WeatherDay>> }

\* --------------------------------------------------- schema (models.py)
ActivityRequired == {"name", "location", "duration", "cost_estimate", "indoor"}
DayPlanRequired == {"day_number", "date", "morning", "afternoon", "evening"}

\* Activity.model_validate: every required field is present
ValidActivity(a) == ActivityRequired \subseteq DOMAIN a

\* Activity.model_dump: declared fields only, defaults filled in
DumpActivity(a) ==
  [name |-> a.name, location |-> a.location, duration |-> a.duration,
   cost_estimate |-> a.cost_estimate, indoor |-> a.indoor,
   description |-> IF Has(a, "description") THEN a.description ELSE None]

\* DayPlan.model_validate
ValidDayPlan(d) ==
  /\ DayPlanRequired \subseteq DOMAIN d
  /\ ValidActivity(d.morning) /\ ValidActivity(d.afternoon) /\ ValidActivity(d.evening)
  /\ Has(d, "alternatives") => \A i \in DOMAIN d.alternatives : ValidActivity(d.alternatives[i])

\* DayPlan.model_dump
DumpDayPlan(d) ==
  [day_number |-> d.day_number, date |-> d.date,
   morning |-> DumpActivity(d.morning), afternoon |-> DumpActivity(d.afternoon),
   evening |-> DumpActivity(d.evening),
   alternatives |-> IF Has(d, "alternatives")
                    THEN [i \in DOMAIN d.alternatives |-> DumpActivity(d.alternatives[i])]
                    ELSE EmptyList,
   notes |-> IF Has(d, "notes") THEN d.notes ELSE None]

\* Itinerary.model_validate succeeds (otherwise it raises ValidationError)
ValidItinerary(v) ==
  /\ Has(v, "daily_plans")
  /\ \A i \in DOMAIN v.daily_plans : ValidDayPlan(v.daily_plans[i])

\* Itinerary.model_validate(v).model_dump()
ModelDump(v) ==
  [daily_plans |-> [i \in DOMAIN v.daily_plans |-> DumpDayPlan(v.daily_plans[i])],
   justifications |-> IF Has(v, "justifications") THEN v.justifications ELSE EmptyList,
   checklist |-> IF Has(v, "checklist") THEN v.checklist ELSE EmptyList]

ValidationError == Exc("ValidationError", "validation error for Itinerary")

\* ------------------------------------------- backend replies, as JSON values
Act(n) == [name |-> n, location |-> "loc", duration |-> "2h",
           cost_estimate |-> "10", indoor |-> TRUE]

\* a complete itinerary with fields the schema ignores
RawGood ==
  [daily_plans |-> << [day_number |-> 1, date |-> "2025-12-20", morning |-> Act("Louvre"),
                       afternoon |-> Act("Orsay"), evening |-> Act("Seine"),
                       mood |-> "fun"] >>,
   comment |-> "voila"]
\* a day without its evening activity
RawNoEvening ==
  [daily_plans |-> << [day_number |-> 1, date |-> "2025-12-20", morning |-> Act("Louvre"),
                       afternoon |-> Act("Orsay")] >>]
\* an object that is no itinerary at all
RawNoPlans == [comment |-> "desole"]
\* another complete itinerary (what a corrector would return)
RawGood2 ==
  [daily_plans |-> << [day_number |-> 1, date |-> "2025-12-20", morning |-> Act("Rodin"),
                       afternoon |-> Act("Orsay"), evening |-> Act("Opera"),
                       alternatives |-> << Act("Cinema") >>] >>,
   justifications |-> <<"pluie">>]

GenerationReplies == {RawGood, RawNoEvening, RawNoPlans}
CorrectionReplies == {RawGood2, RawNoPlans}

Issue == [type |-> "budget", description |-> "trop cher"]
\* critique replies that are JSON objects
CritiqueReplies ==
  { [is_valid |-> TRUE, issues |-> EmptyList, suggestions |-> EmptyList],
    [is_valid |-> TRUE, issues |-> <<Issue>>, suggestions |-> <<"moins cher">>],
    [is_valid |-> FALSE, issues |-> <<Issue>>, suggestions |-> EmptyList],
    [is_valid |-> FALSE, issues |-> EmptyList],
    [issues |-> EmptyList],
    [is_valid |-> FALSE, issues |-> <<None>>] }

\* ------------------------------------------------------------------- state
VARIABLES
  pc,                     \* position in plan_trip (see the header)
  runs,                   \* plan_trip calls made so far on this agent
  max_iterations,         \* self.max_iterations
  enable_self_correction, \* self.enable_self_correction
  action_history,         \* self.action_history, one ActionRecord per entry
  collected_info,         \* self.collected_info (the SessionContext)
  logs,                   \* the local list logs
  iteration,              \* the loop variable of the ReAct loop
  original_action,        \* the action the decision proposed
  action,                 \* the action after the override rules
  action_input,           \* its input after the override rules
  attempt,                \* the loop variable of _execute_plan's retry loop
  itinerary,              \* the itinerary _execute_plan returned
  critique,               \* _self_correct's critique up to its correction request, else None
  result,                 \* what plan_trip returned, None while it runs
  exit,                   \* which return statement ended the run
  raised,                 \* the exception raised during the last step, None if none
  calls                   \* per run: requests and collaborator calls made

\* the state of LLMClient._generate_mistral, the transport of self.llm
VARIABLES
  http_pc,                \* "idle", "post" (a request is in flight), "returned", "raised"
  payload,                \* the request body built from the arguments
  http_attempt,           \* the loop variable attempt of the retry loop
  last_error,             \* the local last_error
  response,               \* what requests.post returned in this attempt, None if it raised
  exc,                    \* the requests exception of this attempt, None if there was none
  sleeps,                 \* the wait_time of every time.sleep of this invocation
  posts,                  \* requests.post calls of this invocation
  http_result,            \* the text the invocation returned, None if it did not return
  http_raised             \* the exception that left the invocation, None if none

\* the state of LLMClient.generate_json
VARIABLES
  json_pc,                \* "idle", "generate" (the first request is in flight),
                          \* "continuation" (a continuation request is), "returned", "raised"
  max_continuations,      \* the argument max_continuations
  reply,                  \* the local response: the text the first request returned
  cleaned,                \* the local cleaned
  extracted,              \* the local extracted
  complete,               \* the local complete
  combined,               \* the local combined
  tail,                   \* the local tail, the context of the continuation prompt
  round,                  \* the loop variable i of the continuation loop
  backend_calls,          \* calls of self.generate made by this invocation
  stage,                  \* which parse attempt produced the returned value
  json_result,            \* the value generate_json returned, None if it did not return
  json_raised             \* the exception that left generate_json, None if none

\* the last call of one of the text helpers of llm_client.py
VARIABLES
  fn,                     \* the helper that was called, "none" before the call
  arg,                    \* the text it is called with
  out                     \* the text it returned (the empty text for None)

agent == <<pc, runs, max_iterations, enable_self_correction, action_history,
           collected_info, logs, iteration, original_action, action, action_input,
           attempt, itinerary, critique, result, exit, raised, calls>>
transport == <<http_pc, payload, http_attempt, last_error, response, exc, sleeps, posts,
               http_result, http_raised>>
pipeline == <<json_pc, max_continuations, reply, cleaned, extracted, complete, combined, tail,
              round, backend_calls, stage, json_result, json_raised>>
helpers == <<fn, arg, out>>
llm == <<transport, pipeline, helpers>>
vars == <<agent, llm>>

config == <<max_iterations, enable_self_correction>>
locals == <<original_action, action, action_input, attempt, itinerary>>

NoCalls == [decision |-> 0, geocode |-> 0, weather |-> 0,
            generate |-> 0, critique |-> 0, correct |-> 0]
Count(k) == [calls EXCEPT ![k] = @ + 1]

Get(d, k, default) == IF Has(d, k) THEN d[k] ELSE default

\* TravelPlannerAgent.__init__
AgentInit ==
  /\ pc = "idle"
  /\ runs = 0
  /\ max_iterations \in 0..MaxIterations
  /\ enable_self_correction \in BOOLEAN
  /\ action_history = << >>
  /\ collected_info = EmptyDict
  /\ logs = << >>
  /\ iteration = 0
  /\ original_action = ""
  /\ action = ""
  /\ action_input = EmptyDict
  /\ attempt = 0
  /\ itinerary = EmptyDict
  /\ critique = None
  /\ result = None
  /\ exit = "none"
  /\ raised = None
  /\ calls = NoCalls

\* LLMClient.__init__: no invocation of the transport has been made
TransportIdle ==
  /\ http_pc = "idle"
  /\ payload = None
  /\ http_attempt = 0
  /\ last_error = None
  /\ response = None
  /\ exc = None
  /\ sleeps = << >>
  /\ posts = 0
  /\ http_result = None
  /\ http_raised = None

\* generate_json has not been called
PipelineIdle ==
  /\ json_pc = "idle"
  /\ max_continuations = 0
  /\ reply = << >>
  /\ cleaned = << >>
  /\ extracted = << >>
  /\ complete = << >>
  /\ combined = << >>
  /\ tail = << >>
  /\ round = 0
  /\ backend_calls = 0
  /\ stage = "none"
  /\ json_result = None
  /\ json_raised = None

\* no text helper has been called
HelpersIdle ==
  /\ fn = "none"
  /\ arg = << >>
  /\ out = << >>

\* the agent and its LLM client after construction
Init == AgentInit /\ TransportIdle /\ PipelineIdle /\ HelpersIdle

\* ------------------------------------------------- the ways plan_trip ends
\* ReturnMaxIterations with the bundle of the exception handler: no partial context
ReturnMaxIterations_NoContext(lg, ci) ==
  LET lg2 == Append(lg, Line("ATTENTION", "Nombre max d'iterations atteint")) IN
  /\ logs' = lg2
  /\ result' = [itinerary |-> EmptyDict, logs |-> lg2, weather |-> EmptyList,
                success |-> FALSE, error |-> "Max iterations"]
  /\ exit' = "max_iterations"
  /\ pc' = "done"

\* the max-iterations return after the loop
ReturnMaxIterations(lg, ci) ==
  LET lg2 == Append(lg, Line("ATTENTION", "Nombre max d'iterations atteint")) IN
  /\ logs' = lg2
  /\ result' = [itinerary |-> Get(ci, "itinerary", EmptyDict), logs |-> lg2,
                weather |-> Get(ci, "weather", EmptyList), success |-> FALSE,
                error |-> "Max iterations"]
  /\ exit' = "max_iterations"
  /\ pc' = "done"

\* Except without the handler: the exception leaves plan_trip
Except_Propagates(e, lg) ==
  /\ logs' = lg
  /\ result' = None
  /\ exit' = "raised"
  /\ raised' = e
  /\ pc' = "done"

\* the handler "except Exception as e" of the loop body
Except(e, lg) ==
  LET lg2 == Append(lg, Line("ERREUR", e.msg)) IN
  /\ logs' = lg2
  /\ result' = [itinerary |-> EmptyDict, logs |-> lg2, weather |-> EmptyList,
                success |-> FALSE, error |-> e.msg]
  /\ exit' = "exception"
  /\ raised' = e
  /\ pc' = "done"

\* the return that follows PLAN
ReturnPlan(final, lg, ci) ==
  /\ logs' = lg
  /\ result' = [itinerary |-> final, logs |-> lg,
                weather |-> Get(ci, "weather", EmptyList), success |-> TRUE,
                metrics |-> [iterations |-> iteration + 1,
                             actions_count |-> Len(action_history)]]
  /\ exit' = "plan"
  /\ pc' = "done"

\* ReturnFinish with the bundle of the exception handler: the context is dropped
ReturnFinish_NoContext(lg, ci) ==
  /\ logs' = lg
  /\ result' = [itinerary |-> EmptyDict, logs |-> lg, weather |-> EmptyList, success |-> TRUE]
  /\ exit' = "finish"
  /\ pc' = "done"

\* the return of FINISH
ReturnFinish(lg, ci) ==
  /\ logs' = lg
  /\ result' = [itinerary |-> Get(ci, "itinerary", EmptyDict), logs |-> lg,
                weather |-> Get(ci, "weather", EmptyList), success |-> TRUE]
  /\ exit' = "finish"
  /\ pc' = "done"

\* LoopHead with an off-by-one loop bound
LoopHead_OffByOne(it, lg, ci) ==
  /\ raised' = None
  /\ IF it <= max_iterations
     THEN /\ iteration' = it
          /\ logs' = Append(lg, Line("--- Iteration", ToString(it + 1)))
          /\ pc' = "decide"
          /\ result' = None
          /\ exit' = "none"
     ELSE /\ iteration' = iteration
          /\ ReturnMaxIterations(lg, ci)

\* "for iteration in range(self.max_iterations)" reaching index it, and the
\* iteration header logged before the decision request
LoopHead(it, lg, ci) ==
  /\ raised' = None
  /\ IF it < max_iterations
     THEN /\ iteration' = it
          /\ logs' = Append(lg, Line("--- Iteration", ToString(it + 1)))
          /\ pc' = "decide"
          /\ result' = None
          /\ exit' = "none"
     ELSE /\ iteration' = iteration
          /\ ReturnMaxIterations(lg, ci)

\* EndIteration that forgets to record the action
EndIteration_NoRecord(res, lg, ci) ==
  /\ action_history' = action_history
  /\ LoopHead(iteration + 1, lg, ci)

\* "Enregistrer dans l'historique", then the next turn of the loop
EndIteration(res, lg, ci) ==
  /\ action_history' = Append(action_history,
                              [action |-> action, input |-> action_input, result |-> res])
  /\ LoopHead(iteration + 1, lg, ci)

\* ---------------------------------------------------------------- plan_trip
\* PlanTrip that adds the request to the SessionContext of the earlier run
PlanTrip_KeepContext ==
  /\ pc \in {"idle", "done"}
  /\ runs < MaxRuns
  /\ runs' = runs + 1
  /\ action_history' = << >>
  /\ collected_info' = Request @@ collected_info
  /\ calls' = NoCalls
  /\ original_action' = "" /\ action' = "" /\ action_input' = EmptyDict
  /\ attempt' = 0 /\ itinerary' = EmptyDict /\ critique' = None
  /\ LoopHead(0, << >>, Request @@ collected_info)
  /\ UNCHANGED <<config, llm>>

\* plan_trip is called: state reset, then the first turn of the loop
PlanTrip ==
  /\ pc \in {"idle", "done"}
  /\ runs < MaxRuns
  /\ runs' = runs + 1
  /\ action_history' = << >>
  /\ collected_info' = Request
  /\ calls' = NoCalls
  /\ original_action' = "" /\ action' = "" /\ action_input' = EmptyDict
  /\ attempt' = 0 /\ itinerary' = EmptyDict /\ critique' = None
  /\ LoopHead(0, << >>, Request)
  /\ UNCHANGED <<config, llm>>

\* ResolveAction without the rule for a repeated GEOCODE
ResolveAction_NoGeocodeRule(a, inp, ci) ==
  IF a = "WEATHER" /\ Has(ci, "weather") /\ ~Get(ci, "weather_unavailable", FALSE)
  THEN [action |-> "PLAN", action_input |-> EmptyDict, rule |-> "2"]
  ELSE IF a = "WEATHER" /\ Get(ci, "weather_unavailable", FALSE)
  THEN [action |-> "PLAN", action_input |-> EmptyDict, rule |-> "3"]
  ELSE [action |-> a, action_input |-> inp, rule |-> "0"]

\* ResolveAction without the rule for a WEATHER proposal after a failed lookup
ResolveAction_RetryFailedWeather(a, inp, ci) ==
  IF a = "GEOCODE" /\ Has(ci, "geocode")
  THEN IF ~Has(ci, "weather")
       THEN [action |-> "WEATHER",
             action_input |-> [lat |-> ci["geocode"].lat, lon |-> ci["geocode"].lon,
                               start_date |-> ci["start_date"],
                               end_date |-> ci["end_date"]],
             rule |-> "1"]
       ELSE [action |-> "PLAN", action_input |-> EmptyDict, rule |-> "1"]
  ELSE IF a = "WEATHER" /\ Has(ci, "weather") /\ ~Get(ci, "weather_unavailable", FALSE)
  THEN [action |-> "PLAN", action_input |-> EmptyDict, rule |-> "2"]
  ELSE [action |-> a, action_input |-> inp, rule |-> "0"]

\* ResolveAction without any override rule
ResolveAction_AsProposed(a, inp, ci) == [action |-> a, action_input |-> inp, rule |-> "0"]

\* ResolveAction with a rule for a repeated GEOCODE that wears off as the run goes on
ResolveAction_UntilSecondIteration(a, inp, ci) ==
  IF iteration < 2 /\ a = "GEOCODE" /\ Has(ci, "geocode") /\ ~Has(ci, "weather")
  THEN [action |-> "WEATHER",
        action_input |-> [lat |-> ci["geocode"].lat, lon |-> ci["geocode"].lon,
                          start_date |-> ci["start_date"],
                          end_date |-> ci["end_date"]],
        rule |-> "1"]
  ELSE IF iteration < 2 /\ a = "GEOCODE" /\ Has(ci, "geocode")
  THEN [action |-> "PLAN", action_input |-> EmptyDict, rule |-> "1"]
  ELSE ResolveAction_NoGeocodeRule(a, inp, ci)

\* the override rules applied to the proposed action a with input inp in
\* SessionContext ci: the resolved action, its input and the rule that fired
ResolveAction(a, inp, ci) ==
  IF a = "GEOCODE" /\ Has(ci, "geocode")
  THEN IF ~Has(ci, "weather")
       THEN [action |-> "WEATHER",
             action_input |-> [lat |-> ci["geocode"].lat, lon |-> ci["geocode"].lon,
                               start_date |-> ci["start_date"],
                               end_date |-> ci["end_date"]],
             rule |-> "1"]
       ELSE [action |-> "PLAN", action_input |-> EmptyDict, rule |-> "1"]
  ELSE IF a = "WEATHER" /\ Has(ci, "weather") /\ ~Get(ci, "weather_unavailable", FALSE)
  THEN [action |-> "PLAN", action_input |-> EmptyDict, rule |-> "2"]
  ELSE IF a = "WEATHER" /\ Get(ci, "weather_unavailable", FALSE)
  THEN [action |-> "PLAN", action_input |-> EmptyDict, rule |-> "3"]
  ELSE [action |-> a, action_input |-> inp, rule |-> "0"]

\* the lines logged while the override rules are applied
OverrideLogs(a, r) ==
  IF r.rule = "0"
  THEN << Line("ACTION", a) >>
  ELSE << Line("ACTION", a), Line("OVERRIDE", r.rule), Line("NOUVELLE ACTION", r.action) >>

\* the decision request raised: fatal transport error or unparseable reply
DecisionRaises(e) ==
  /\ pc = "decide"
  /\ calls' = Count("decision")
  /\ Except(e, logs)
  /\ UNCHANGED <<runs, config, llm, action_history, collected_info, iteration, locals, critique>>

\* the decision reply parsed to a JSON value that is no object: decision.get fails
DecisionNotObject ==
  /\ pc = "decide"
  /\ calls' = Count("decision")
  /\ Except(AttributeError, logs)
  /\ UNCHANGED <<runs, config, llm, action_history, collected_info, iteration, locals, critique>>

\* the decision reply d arrived: thought logged, override rules applied
Decision(d) ==
  /\ pc = "decide"
  /\ calls' = Count("decision")
  /\ LET a == Get(d, "action", "")
         inp == Get(d, "action_input", EmptyDict)
         r == ResolveAction(a, inp, collected_info)
     IN /\ original_action' = a
        /\ action' = r.action
        /\ action_input' = r.action_input
        /\ logs' = Append(logs, Line("THOUGHT", Get(d, "thought", ""))) \o OverrideLogs(a, r)
  /\ pc' = "execute"
  /\ raised' = None
  /\ UNCHANGED <<runs, config, llm, action_history, collected_info, iteration,
                 attempt, itinerary, critique, result, exit>>

\* truthiness of a number / a string stored under key k of dict d (d.get(k))
TruthyNumber(d, k) == Has(d, k) /\ d[k] # 0
TruthyString(d, k) == Has(d, k) /\ d[k] # ""

\* action GEOCODE: _execute_geocode, r is what the geocode collaborator returns
ExecuteGeocode(r) ==
  /\ pc = "execute" /\ action = "GEOCODE"
  /\ IF action_input = None
     THEN /\ Except(AttributeError, logs)
          /\ UNCHANGED <<action_history, collected_info, iteration, calls>>
     ELSE IF ~TruthyString(action_input, "city")
     THEN /\ EndIteration(None, Append(logs, Line("ERREUR", "Pas de ville specifiee pour GEOCODE")),
                          collected_info)
          /\ UNCHANGED <<collected_info, calls>>
     ELSE /\ calls' = Count("geocode")
          /\ IF r # None
             THEN /\ collected_info' = Put(collected_info, "geocode", r)
                  /\ EndIteration(r, Append(logs, Line("OBSERVATION", r.name)),
                                  Put(collected_info, "geocode", r))
             ELSE /\ collected_info' = collected_info
                  /\ EndIteration(None, Append(logs, Line("ERREUR", "Ville non trouvee")),
                                  collected_info)
  /\ UNCHANGED <<runs, config, llm, locals, critique>>

\* a python list as the result part of an ActionRecord
ListResult(w) == [list |-> w]

\* StoreWeather that leaves the flag unset
StoreWeather_NoFlag(ci, w) == Put(ci, "weather", w)

\* StoreWeather that sets the flag whatever the collaborator returned
StoreWeather_FlagAlways(ci, w) == Put(Put(ci, "weather", w), "weather_unavailable", TRUE)

\* what _execute_weather stores when the collaborator returned w
StoreWeather(ci, w) ==
  IF w # EmptyList
  THEN Put(ci, "weather", w)
  ELSE Put(Put(ci, "weather", EmptyList), "weather_unavailable", TRUE)

\* action WEATHER: _execute_weather, w is what the weather collaborator returns
ExecuteWeather(w) ==
  /\ pc = "execute" /\ action = "WEATHER"
  /\ IF action_input = None
     THEN /\ Except(AttributeError, logs)
          /\ UNCHANGED <<action_history, collected_info, iteration, calls>>
     ELSE IF ~(/\ TruthyNumber(action_input, "lat") /\ TruthyNumber(action_input, "lon")
               /\ TruthyString(action_input, "start_date")
               /\ TruthyString(action_input, "end_date"))
     THEN /\ EndIteration(None, Append(logs, Line("ERREUR", "Parametres manquants pour WEATHER")),
                          collected_info)
          /\ UNCHANGED <<collected_info, calls>>
     ELSE /\ calls' = Count("weather")
          /\ collected_info' = StoreWeather(collected_info, w)
          /\ EndIteration(ListResult(w),
                          IF w # EmptyList
                          THEN Append(logs, Line("OBSERVATION", "Meteo recuperee"))
                          ELSE logs \o << Line("AVERTISSEMENT", "Impossible de recuperer la meteo"),
                                          Line("->", "L'itineraire sera genere sans adaptation meteo") >>,
                          StoreWeather(collected_info, w))
  /\ UNCHANGED <<runs, config, llm, locals, critique>>

\* action FINISH
ExecuteFinish ==
  /\ pc = "execute" /\ action = "FINISH"
  /\ ReturnFinish(Append(logs, Line("FINISH", "Agent termine")), collected_info)
  /\ raised' = None
  /\ UNCHANGED <<runs, config, llm, action_history, collected_info, iteration, locals, critique, calls>>

\* ExecuteUnknown that raises instead of logging
ExecuteUnknown_Aborts ==
  /\ pc = "execute" /\ action \notin {"GEOCODE", "WEATHER", "PLAN", "FINISH"}
  /\ Except(Exc("ValueError", "Action inconnue"), logs)
  /\ UNCHANGED <<runs, config, llm, action_history, collected_info, iteration, locals, critique, calls>>

\* an action that is none of the four: logged, result None
ExecuteUnknown ==
  /\ pc = "execute" /\ action \notin {"GEOCODE", "WEATHER", "PLAN", "FINISH"}
  /\ EndIteration(None, Append(logs, Line("ERREUR", "Action inconnue")), collected_info)
  /\ UNCHANGED <<runs, config, llm, collected_info, locals, critique, calls>>

\* ------------------------------------------------------------ _execute_plan
\* max_retries of _execute_plan
PlanMaxRetries == 2

\* weather is missing or marked unavailable: the prompts are built in degraded mode
Degraded(ci) == Get(ci, "weather_unavailable", FALSE) \/ Get(ci, "weather", EmptyList) = EmptyList

\* action PLAN: _execute_plan up to its first generation request
ExecutePlan ==
  /\ pc = "execute" /\ action = "PLAN"
  /\ logs' = Append(logs, Line("ACTION", "Generation de l'itineraire...")) \o
             (IF Degraded(collected_info)
              THEN << Line("Mode degrade", "generation sans donnees meteo") >> ELSE << >>)
  /\ attempt' = 0
  /\ pc' = "generate"
  /\ raised' = None
  /\ UNCHANGED <<runs, config, llm, action_history, collected_info, iteration, original_action,
                 action, action_input, itinerary, critique, result, exit, calls>>

\* _self_correct up to its critique request
BeginSelfCorrect(lg, ci) ==
  /\ logs' = Append(lg, Line("--- SELF-CORRECTION ---", "")) \o
             (IF Degraded(ci) THEN << Line("Critique en mode degrade", "sans meteo") >> ELSE << >>) \o
             << Line("Critique de l'itineraire...", "") >>
  /\ pc' = "critique"
  /\ UNCHANGED <<result, exit>>

\* AfterPlan that goes on with the loop instead of returning
AfterPlan_BackToLoop(it, lg, ci) ==
  /\ logs' = lg
  /\ pc' = "decide"
  /\ UNCHANGED <<result, exit>>

\* AfterPlan that returns only through the self-correction
AfterPlan_LoopWithoutCorrection(it, lg, ci) ==
  IF enable_self_correction THEN BeginSelfCorrect(lg, ci) ELSE AfterPlan_BackToLoop(it, lg, ci)

\* what follows a returned _execute_plan: self-correction if enabled, else the return
AfterPlan(it, lg, ci) ==
  IF enable_self_correction THEN BeginSelfCorrect(lg, ci) ELSE ReturnPlan(it, lg, ci)

\* RetryOrRaise that gives up at the first failure
RetryOrRaise_NoRetry(e, lg) ==
  /\ attempt' = attempt
  /\ Except(e, Append(lg, Line("ERREUR", e.msg)))

\* a failed generation attempt: retried while attempts remain, else logged and re-raised
RetryOrRaise(e, lg) ==
  IF attempt < PlanMaxRetries - 1
  THEN /\ attempt' = attempt + 1
       /\ raised' = e
       /\ logs' = Append(lg, Line("Erreur JSON, retry...", ToString(attempt + 1)))
       /\ UNCHANGED <<pc, result, exit>>
  ELSE /\ attempt' = attempt
       /\ Except(e, Append(lg, Line("ERREUR", e.msg)))

\* a generation reply v that parsed to a JSON object: validated against the schema
GenerationReply(v) ==
  /\ pc = "generate"
  /\ calls' = Count("generate")
  /\ IF ValidItinerary(v)
     THEN /\ itinerary' = ModelDump(v)
          /\ collected_info' = Put(collected_info, "itinerary", ModelDump(v))
          /\ attempt' = attempt
          /\ raised' = None
          /\ AfterPlan(ModelDump(v),
                       Append(logs, Line("OBSERVATION", "Itineraire genere")),
                       Put(collected_info, "itinerary", ModelDump(v)))
     ELSE /\ RetryOrRaise(ValidationError, logs)
          /\ UNCHANGED <<itinerary, collected_info>>
  /\ UNCHANGED <<runs, config, llm, action_history, iteration, original_action, action, action_input,
                 critique>>

\* the generation reply could not be parsed: JSONParseError
GenerationParseError ==
  /\ pc = "generate"
  /\ calls' = Count("generate")
  /\ RetryOrRaise(ParseError, Append(logs, Line("Reponse du modele non-JSON", ToString(attempt + 1))))
  /\ UNCHANGED <<runs, config, llm, action_history, collected_info, iteration, original_action,
                 action, action_input, itinerary, critique>>

\* GenerationTransportError handled like a parse failure ("except Exception")
GenerationTransportError_Retried(e) ==
  /\ pc = "generate"
  /\ calls' = Count("generate")
  /\ RetryOrRaise(e, logs)
  /\ UNCHANGED <<runs, config, llm, action_history, collected_info, iteration, original_action,
                 action, action_input, itinerary, critique>>

\* the generation request hit a fatal transport error: no handler of _execute_plan matches
GenerationTransportError(e) ==
  /\ pc = "generate"
  /\ calls' = Count("generate")
  /\ Except(e, logs)
  /\ UNCHANGED <<runs, config, llm, action_history, collected_info, iteration, locals, critique>>

\* ------------------------------------------------------------- _self_correct
\* SelfCorrectFallback without the handler: the exception reaches the loop body
SelfCorrectFallback_Raises(e, lg) == Except(e, lg)

\* the handler "except Exception as e" of _self_correct: the original is returned
SelfCorrectFallback(e, lg) ==
  /\ raised' = e
  /\ ReturnPlan(itinerary,
                lg \o << Line("ERREUR lors de la self-correction", e.msg),
                         Line("Retour de l'itineraire original", "") >>,
                collected_info)

\* the critique request raised: fatal transport error or unparseable reply
CritiqueRaises(e) ==
  /\ pc = "critique"
  /\ calls' = Count("critique")
  /\ critique' = None
  /\ SelfCorrectFallback(e, logs)
  /\ UNCHANGED <<runs, config, llm, action_history, collected_info, iteration, locals>>

\* the critique parsed to a JSON value that is no object: critique.get fails
CritiqueNotObject ==
  /\ pc = "critique"
  /\ calls' = Count("critique")
  /\ critique' = ListResult(EmptyList)
  /\ SelfCorrectFallback(AttributeError, logs)
  /\ UNCHANGED <<runs, config, llm, action_history, collected_info, iteration, locals>>

\* CritiqueReply that accepts the itinerary when is_valid holds or no issue is listed
CritiqueReply_Or(c) ==
  /\ pc = "critique"
  /\ calls' = Count("critique")
  /\ critique' = c
  /\ LET is_valid == Get(c, "is_valid", FALSE)
         issues == Get(c, "issues", EmptyList)
         lg == Append(logs, Line("PROBLEMES DETECTES", ToString(Len(issues))))
     IN IF is_valid \/ issues = EmptyList
        THEN /\ raised' = None
             /\ ReturnPlan(itinerary,
                           Append(logs, Line("VALIDATION", "Itineraire OK")), collected_info)
        ELSE IF \E i \in DOMAIN issues : issues[i] = None
        THEN SelfCorrectFallback(AttributeError, lg)
        ELSE /\ logs' = lg \o [i \in DOMAIN issues |-> Line("issue", issues[i].description)] \o
                        << Line("Correction de l'itineraire...", "") >>
             /\ pc' = "correct"
             /\ raised' = None
             /\ UNCHANGED <<result, exit>>
  /\ UNCHANGED <<runs, config, llm, action_history, collected_info, iteration, locals>>

\* the critique c arrived: accepted, or a correction is requested
CritiqueReply(c) ==
  /\ pc = "critique"
  /\ calls' = Count("critique")
  /\ critique' = c
  /\ LET is_valid == Get(c, "is_valid", FALSE)
         issues == Get(c, "issues", EmptyList)
         lg == Append(logs, Line("PROBLEMES DETECTES", ToString(Len(issues))))
     IN IF is_valid /\ issues = EmptyList
        THEN /\ raised' = None
             /\ ReturnPlan(itinerary,
                           Append(logs, Line("VALIDATION", "Itineraire OK")), collected_info)
        ELSE IF \E i \in DOMAIN issues : issues[i] = None
        THEN SelfCorrectFallback(AttributeError, lg)
        ELSE /\ logs' = lg \o [i \in DOMAIN issues |-> Line("issue", issues[i].description)] \o
                        << Line("Correction de l'itineraire...", "") >>
             /\ pc' = "correct"
             /\ raised' = None
             /\ UNCHANGED <<result, exit>>
  /\ UNCHANGED <<runs, config, llm, action_history, collected_info, iteration, locals>>

\* CorrectionReply that has the corrected itinerary critiqued again
CorrectionReply_Recritique(v) ==
  /\ pc = "correct"
  /\ calls' = Count("correct")
  /\ itinerary' = v
  /\ logs' = Append(logs, Line("CORRECTION", "Itineraire corrige"))
  /\ pc' = "critique"
  /\ raised' = None
  /\ UNCHANGED <<runs, config, llm, action_history, collected_info, iteration, original_action,
                 action, action_input, attempt, critique, result, exit>>

\* the correction reply v parsed to a JSON object: it is returned as it is
CorrectionReply(v) ==
  /\ pc = "correct"
  /\ calls' = Count("correct")
  /\ ReturnPlan(v, Append(logs, Line("CORRECTION", "Itineraire corrige")), collected_info)
  /\ raised' = None
  /\ critique' = None
  /\ UNCHANGED <<runs, config, llm, action_history, collected_info, iteration, locals>>

\* the correction request raised: fatal transport error or unparseable reply
CorrectionRaises(e) ==
  /\ pc = "correct"
  /\ calls' = Count("correct")
  /\ SelfCorrectFallback(e, logs)
  /\ critique' = None
  /\ UNCHANGED <<runs, config, llm, action_history, collected_info, iteration, locals>>

\* ------------------------------------------------------------- specification
BackendErrors == TransportErrors \cup {ParseError}

Next ==
  \/ PlanTrip
  \/ \E e \in BackendErrors : DecisionRaises(e)
  \/ DecisionNotObject
  \/ \E d \in Decisions : Decision(d)
  \/ \E r \in GeocodeResults : ExecuteGeocode(r)
  \/ \E w \in WeatherResults : ExecuteWeather(w)
  \/ ExecutePlan
  \/ ExecuteFinish
  \/ ExecuteUnknown
  \/ \E v \in GenerationReplies : GenerationReply(v)
  \/ GenerationParseError
  \/ \E e \in TransportErrors : GenerationTransportError(e)
  \/ \E e \in BackendErrors : CritiqueRaises(e)
  \/ CritiqueNotObject
  \/ \E c \in CritiqueReplies : CritiqueReply(c)
  \/ \E v \in CorrectionReplies : CorrectionReply(v)
  \/ \E e \in BackendErrors : CorrectionRaises(e)

Spec == Init /\ [][Next]_vars

\* every backend call and collaborator call is blocking with a timeout, so a
\* run that has started keeps taking steps until plan_trip returns
RunStep == Next /\ runs' = runs
FairSpec == Spec /\ WF_vars(RunStep)

\* ------------------------------------------------------------------- texts
\* a text (str) is a sequence of one-character strings
Whitespace == {" ", "\n", "\t", "\r", "\f"}

\* a local name for a value: F applied to v, with v worked out once
Only(S) == CHOOSE x \in S : TRUE
Let(v, F(_)) == Only({ F(x) : x \in {v} })

\* str.lstrip, str.rstrip, str.strip
RECURSIVE LStrip(_)
LStrip(t) == IF t # << >> /\ Head(t) \in Whitespace THEN LStrip(Tail(t)) ELSE t

RECURSIVE RStrip(_)
RStrip(t) ==
  IF t # << >> /\ t[Len(t)] \in Whitespace THEN RStrip(SubSeq(t, 1, Len(t) - 1)) ELSE t

Strip(t) == RStrip(LStrip(t))

StartsWith(t, prefix) == Len(t) >= Len(prefix) /\ SubSeq(t, 1, Len(prefix)) = prefix
EndsWith(t, suffix) ==
  Len(t) >= Len(suffix) /\ SubSeq(t, Len(t) - Len(suffix) + 1, Len(t)) = suffix

\* str.find and str.rfind of one character, counted from 1; 0 stands for -1
Find(t0, c) ==
  Let(t0, LAMBDA t :
    IF \E i \in DOMAIN t : t[i] = c
    THEN CHOOSE i \in DOMAIN t : t[i] = c /\ \A j \in 1..(i - 1) : t[j] # c
    ELSE 0)
RFind(t0, c) ==
  Let(t0, LAMBDA t :
    IF \E i \in DOMAIN t : t[i] = c
    THEN CHOOSE i \in DOMAIN t : t[i] = c /\ \A j \in (i + 1)..Len(t) : t[j] # c
    ELSE 0)

\* ------------------------------------------------------------------ json.loads
\* how deep json.loads can nest objects and arrays before the interpreter's
\* recursion limit stops it (about 1000 in CPython), scaled to the texts here
MaxNesting == 3

\* A JSON value is [object |-> f] with f a function from key texts to values,
\* [array |-> values], [string |-> text], [number |-> text] or [literal |-> name].
JsonWhitespace == {" ", "\t", "\n", "\r"}
Digits == {"0", "1", "2", "3", "4", "5", "6", "7", "8", "9"}
HexDigits == Digits \cup {"a", "b", "c", "d", "e", "f", "A", "B", "C", "D", "E", "F"}

\* the characters below 0x20; "^A" and "^H" stand for U+0001 and U+0008
ControlChars == {"\n", "\r", "\t", "\f", "^A", "^H"}

\* the one-character escapes of a JSON string (BACKSLASH in json.decoder)
Escapes ==
  ("\"" :> "\"") @@ ("\\" :> "\\") @@ ("/" :> "/") @@ ("b" :> "^H") @@
  ("f" :> "\f") @@ ("n" :> "\n") @@ ("r" :> "\r") @@ ("t" :> "\t")

\* the character a \uXXXX escape stands for
UnicodeChar(h) ==
  Let([k \in 1..4 |-> CASE h[k] = "A" -> "a" [] h[k] = "B" -> "b" [] h[k] = "C" -> "c"
                        [] h[k] = "D" -> "d" [] h[k] = "E" -> "e" [] h[k] = "F" -> "f"
                        [] OTHER -> h[k]],
      LAMBDA x :
        CASE x = <<"0", "0", "0", "a">> -> "\n"
          [] x = <<"0", "0", "0", "d">> -> "\r"
          [] x = <<"0", "0", "0", "9">> -> "\t"
          [] x = <<"0", "0", "0", "c">> -> "\f"
          [] x = <<"0", "0", "0", "1">> -> "^A"
          [] x = <<"0", "0", "0", "8">> -> "^H"
          [] OTHER -> "U+" \o x[1] \o x[2] \o x[3] \o x[4])

RECURSIVE SkipWhitespace(_, _)
SkipWhitespace(t, i) ==
  IF i <= Len(t) /\ t[i] \in JsonWhitespace THEN SkipWhitespace(t, i + 1) ELSE i

RECURSIVE SkipDigits(_, _)
SkipDigits(t, i) == IF i <= Len(t) /\ t[i] \in Digits THEN SkipDigits(t, i + 1) ELSE i

\* the result of a scan: failure (JSONDecodeError(msg, doc, pos), pos being the
\* index the error is reported at, counted from 0), the interpreter's
\* RecursionError, or the value and the index after it
Fail(pos) == [ok |-> FALSE, error |-> "JSONDecodeError", pos |-> pos]
RecursionError == [ok |-> FALSE, error |-> "RecursionError"]
Parsed(v, i) == [ok |-> TRUE, v |-> v, i |-> i]

\* scanstring (strict): begin is the index of the opening quote, i the index
\* of the next character of the string
RECURSIVE ScanString(_, _, _, _)
ScanString(t, begin, i, chars) ==
  IF i > Len(t) THEN Fail(begin - 1)
  ELSE IF t[i] = "\"" THEN Parsed([string |-> chars], i + 1)
  ELSE IF t[i] \in ControlChars THEN Fail(i - 1)
  ELSE IF t[i] # "\\" THEN ScanString(t, begin, i + 1, Append(chars, t[i]))
  ELSE IF i + 1 > Len(t) THEN Fail(begin - 1)
  ELSE IF t[i + 1] = "u"
  THEN IF i + 5 <= Len(t) /\ \A k \in 2..5 : t[i + k] \in HexDigits
       THEN ScanString(t, begin, i + 6, Append(chars, UnicodeChar(SubSeq(t, i + 2, i + 5))))
       ELSE Fail(i)
  ELSE IF t[i + 1] \in DOMAIN Escapes
  THEN ScanString(t, begin, i + 2, Append(chars, Escapes[t[i + 1]]))
  ELSE Fail(i - 1)

\* NUMBER_RE: -?(0|[1-9][0-9]*)(\.[0-9]+)?([eE][-+]?[0-9]+)?
ScanNumber(t, i0) ==
  Let(i0, LAMBDA i :
  Let(IF t[i] = "-" THEN i + 1 ELSE i, LAMBDA a :
  Let(IF a <= Len(t) /\ t[a] = "0" THEN a + 1 ELSE SkipDigits(t, a), LAMBDA b :
  Let(IF b + 1 <= Len(t) /\ t[b] = "." /\ t[b + 1] \in Digits
      THEN SkipDigits(t, b + 1) ELSE b, LAMBDA c :
  Let(IF c + 1 <= Len(t) /\ t[c] \in {"e", "E"} /\ t[c + 1] \in {"+", "-"}
      THEN c + 2 ELSE c + 1, LAMBDA d :
  Let(IF c <= Len(t) /\ t[c] \in {"e", "E"} /\ d <= Len(t) /\ t[d] \in Digits
      THEN SkipDigits(t, d) ELSE c, LAMBDA e :
  IF b > a THEN Parsed([number |-> SubSeq(t, i, e - 1)], e) ELSE Fail(i - 1)))))))

\* the constants the scanner knows
Literals ==
  { <<"n", "u", "l", "l">>, <<"t", "r", "u", "e">>, <<"f", "a", "l", "s", "e">>,
    <<"N", "a", "N">>, <<"I", "n", "f", "i", "n", "i", "t", "y">>,
    <<"-", "I", "n", "f", "i", "n", "i", "t", "y">> }
StartsAt(t, i, word) == i + Len(word) - 1 <= Len(t) /\ SubSeq(t, i, i + Len(word) - 1) = word

\* scan_once, JSONObject and JSONArray of json.scanner and json.decoder
\* d is the number of objects and arrays the scanner is inside of
RECURSIVE ScanValue(_, _, _)
RECURSIVE ScanMembers(_, _, _, _)
RECURSIVE ScanElements(_, _, _, _)
ScanValue(t, i0, d) ==
  Let(i0, LAMBDA i :
    IF i > Len(t) THEN Fail(i - 1)
    ELSE IF t[i] = "\"" THEN ScanString(t, i, i + 1, << >>)
    ELSE IF t[i] \in {"{", "["} /\ d + 1 > MaxNesting THEN RecursionError
    ELSE IF t[i] = "{"
    THEN Let(SkipWhitespace(t, i + 1), LAMBDA j :
           IF j <= Len(t) /\ t[j] = "}" THEN Parsed([object |-> << >>], j + 1)
           ELSE ScanMembers(t, j, << >>, d + 1))
    ELSE IF t[i] = "["
    THEN Let(SkipWhitespace(t, i + 1), LAMBDA j :
           IF j <= Len(t) /\ t[j] = "]" THEN Parsed([array |-> << >>], j + 1)
           ELSE ScanElements(t, j, << >>, d + 1))
    ELSE Let(IF t[i] \in Digits \cup {"-"} THEN ScanNumber(t, i) ELSE Fail(i - 1), LAMBDA number :
           IF number.ok THEN number
           ELSE IF \E w \in Literals : StartsAt(t, i, w)
           THEN Let(CHOOSE w \in Literals : StartsAt(t, i, w), LAMBDA w :
                  Parsed([literal |-> w], i + Len(w)))
           ELSE Fail(i - 1)))

\* the members of an object from index j on; the later of two equal keys wins
ScanMembers(t, j0, members0, d) ==
  Let(j0, LAMBDA j : Let(members0, LAMBDA members :
    IF j > Len(t) \/ t[j] # "\"" THEN Fail(j - 1)
    ELSE Let(ScanString(t, j, j + 1, << >>), LAMBDA key :
      IF ~key.ok THEN key
      ELSE Let(SkipWhitespace(t, key.i), LAMBDA colon :
        IF colon > Len(t) \/ t[colon] # ":" THEN Fail(colon - 1)
        ELSE Let(ScanValue(t, SkipWhitespace(t, colon + 1), d), LAMBDA value :
          IF ~value.ok THEN value
          ELSE Let((key.v.string :> value.v) @@ members, LAMBDA pairs :
               Let(SkipWhitespace(t, value.i), LAMBDA next :
                 IF next > Len(t) THEN Fail(next - 1)
                 ELSE IF t[next] = "}" THEN Parsed([object |-> pairs], next + 1)
                 ELSE IF t[next] = ","
                 THEN ScanMembers(t, SkipWhitespace(t, next + 1), pairs, d)
                 ELSE Fail(next - 1))))))))

\* the elements of an array from index j on
ScanElements(t, j0, elements0, d) ==
  Let(elements0, LAMBDA elements : Let(ScanValue(t, j0, d), LAMBDA value :
    IF ~value.ok THEN value
    ELSE Let(SkipWhitespace(t, value.i), LAMBDA next :
      IF next > Len(t) THEN Fail(next - 1)
      ELSE IF t[next] = "]" THEN Parsed([array |-> Append(elements, value.v)], next + 1)
      ELSE IF t[next] = ","
      THEN ScanElements(t, SkipWhitespace(t, next + 1), Append(elements, value.v), d)
      ELSE Fail(next - 1))))

\* json.loads(t): one value with whitespace around it, else JSONDecodeError;
\* nesting deeper than the interpreter allows ends it with RecursionError
json_loads(t0) ==
  Let(t0, LAMBDA t : Let(ScanValue(t, SkipWhitespace(t, 1), 0), LAMBDA r :
    IF ~r.ok THEN r
    ELSE IF SkipWhitespace(t, r.i) > Len(t) THEN [ok |-> TRUE, v |-> r.v]
    ELSE Fail(SkipWhitespace(t, r.i) - 1)))


\* ------------------------------------------------ the repairs of generate_json
\* An Optional[str] is a text, None being the empty text: the code only ever
\* tests such a value for truth, and None and "" are both false.
Backtick == "BACKTICK"
Fence == << Backtick, Backtick, Backtick >>
FenceJson == Fence \o << "j", "s", "o", "n" >>
Drop(t, n) == SubSeq(t, n + 1, Len(t))

strip_code_fences(text) ==
  Let(Strip(text), LAMBDA c1 :
  Let(IF StartsWith(c1, FenceJson) THEN Drop(c1, 7) ELSE c1, LAMBDA c2 :
  Let(IF StartsWith(c2, Fence) THEN Drop(c2, 3) ELSE c2, LAMBDA c3 :
  Let(IF EndsWith(c3, Fence) THEN SubSeq(c3, 1, Len(c3) - 3) ELSE c3, LAMBDA c4 :
  Strip(c4)))))

extract_json_object(text0) ==
  Let(text0, LAMBDA text :
  Let(Find(text, "{"), LAMBDA start :
  Let(RFind(text, "}"), LAMBDA end :
    IF start = 0 \/ end = 0 \/ end <= start THEN << >>
    ELSE Strip(SubSeq(text, start, end)))))

\* the scan loop of _find_first_complete_json_object from index i on
RECURSIVE ScanObject(_, _, _, _, _, _)
ScanObject(text, start, i, depth, in_string, escaped) ==
  IF i > Len(text) THEN << >>
  ELSE LET ch == text[i] IN
       IF in_string
       THEN IF escaped THEN ScanObject(text, start, i + 1, depth, TRUE, FALSE)
            ELSE IF ch = "\\" THEN ScanObject(text, start, i + 1, depth, TRUE, TRUE)
            ELSE IF ch = "\"" THEN ScanObject(text, start, i + 1, depth, FALSE, FALSE)
            ELSE ScanObject(text, start, i + 1, depth, TRUE, FALSE)
       ELSE IF ch = "\"" THEN ScanObject(text, start, i + 1, depth, TRUE, escaped)
            ELSE IF ch = "{" THEN ScanObject(text, start, i + 1, depth + 1, FALSE, escaped)
            ELSE IF ch = "}"
            THEN IF depth - 1 = 0 THEN Strip(SubSeq(text, start, i))
                 ELSE ScanObject(text, start, i + 1, depth - 1, FALSE, escaped)
            ELSE ScanObject(text, start, i + 1, depth, FALSE, escaped)

\* the four hex digits of ord(ch) for the control characters without a short escape
Hex4(ch) ==
  CASE ch = "\f" -> << "0", "0", "0", "c" >>
    [] ch = "^A" -> << "0", "0", "0", "1" >>
    [] ch = "^H" -> << "0", "0", "0", "8" >>

\* the while loop of _escape_control_chars_in_strings from index i on
RECURSIVE EscapeFrom(_, _, _, _)
EscapeFrom(text, i, in_string, escaped) ==
  IF i > Len(text) THEN << >>
  ELSE LET ch == text[i] IN
       IF ~in_string THEN << ch >> \o EscapeFrom(text, i + 1, ch = "\"", escaped)
       ELSE IF escaped THEN << ch >> \o EscapeFrom(text, i + 1, TRUE, FALSE)
       ELSE IF ch = "\\" THEN << ch >> \o EscapeFrom(text, i + 1, TRUE, TRUE)
       ELSE IF ch = "\"" THEN << ch >> \o EscapeFrom(text, i + 1, FALSE, FALSE)
       ELSE IF ch = "\r"
       THEN << "\\", "n" >> \o
            EscapeFrom(text, IF i + 1 <= Len(text) /\ text[i + 1] = "\n" THEN i + 2 ELSE i + 1,
                       TRUE, FALSE)
       ELSE IF ch = "\n" THEN << "\\", "n" >> \o EscapeFrom(text, i + 1, TRUE, FALSE)
       ELSE IF ch = "\t" THEN << "\\", "t" >> \o EscapeFrom(text, i + 1, TRUE, FALSE)
       ELSE IF ch \in ControlChars
       THEN << "\\", "u" >> \o Hex4(ch) \o EscapeFrom(text, i + 1, TRUE, FALSE)
       ELSE << ch >> \o EscapeFrom(text, i + 1, TRUE, FALSE)

\* the escaping of a text taken as the inside of one string
escape_control_chars_in_strings_Everywhere(text0) ==
  Let(text0, LAMBDA text : EscapeFrom(text, 1, TRUE, FALSE))

escape_control_chars_in_strings(text0) ==
  Let(text0, LAMBDA text : EscapeFrom(text, 1, FALSE, FALSE))

\* \s of the regular expression, and "the comma at i is followed by \s*[}\]]"
RegexSpace_None == { }
RegexSpace == {" ", "\t", "\n", "\r", "\f"}
RECURSIVE CloserFollows(_, _)
CloserFollows(text, i) ==
  /\ i <= Len(text)
  /\ \/ text[i] \in {"}", "]"}
     \/ text[i] \in RegexSpace /\ CloserFollows(text, i + 1)

\* one _TRAILING_COMMA_RE.sub: every comma that such a closer follows is dropped
RECURSIVE SubFrom(_, _)
SubFrom(text, i) ==
  IF i > Len(text) THEN << >>
  ELSE IF text[i] = "," /\ CloserFollows(text, i + 1) THEN SubFrom(text, i + 1)
  ELSE << text[i] >> \o SubFrom(text, i + 1)

RECURSIVE remove_trailing_commas(_)
remove_trailing_commas(text0) ==
  Let(text0, LAMBDA text : Let(SubFrom(text, 1), LAMBDA current :
    IF current = text THEN text ELSE remove_trailing_commas(current)))

\* the object taken from the first "{" to the last "}" of the text
find_first_complete_json_object_Loose(text0) == extract_json_object(text0)

find_first_complete_json_object(text0) ==
  Let(text0, LAMBDA text : Let(Find(text, "{"), LAMBDA start :
    IF start = 0 THEN << >> ELSE ScanObject(text, start, start, 0, FALSE, FALSE)))

\* _is_likely_truncated_json without its test for a "{"
is_likely_truncated_json_NoBrace(text0) ==
  Let(text0, LAMBDA text :
    text # << >> /\ find_first_complete_json_object(text) = << >>)

is_likely_truncated_json(text0) ==
  Let(text0, LAMBDA text :
    /\ text # << >>
    /\ \E i \in DOMAIN text : text[i] = "{"
    /\ find_first_complete_json_object(text) = << >>)


\* ------------------------------------------------- LLMClient._generate_mistral
\* max_retries of the retry loop and the default of self.timeout_s
max_retries == 5
timeout_s == 300

\* wait_time that doubles at every attempt
wait_time_Exponential(a) == 3 * 2^a

\* wait_time of the retry that follows the failed attempt a (counted from 0)
wait_time(a) == (a + 1) * 3

\* the values of the arguments system and json_mode ("" stands for no system prompt)
Systems == {"", "Tu es un planificateur"}

\* the request body
Payload(system, json_mode) ==
  LET messages == (IF system # "" THEN << [role |-> "system", content |-> system] >> ELSE << >>)
                  \o << [role |-> "user", content |-> "prompt"] >>
  IN IF json_mode
     THEN [model |-> "mistral-large-latest", messages |-> messages,
           response_format |-> [type |-> "json_object"]]
     ELSE [model |-> "mistral-large-latest", messages |-> messages]

\* what the API can answer: a status, and for 200 a body with or without choices
Statuses == {200, 401, 429, 500}
Contents == { <<"o", "k">>, <<" ", "{", "}", "\n">>, << >> }
Bodies == { [choices |-> << [message |-> [content |-> c]] >>] : c \in Contents }
            \cup { [object |-> "error"] }
Response(s, b) == [status_code |-> s, body |-> b]
Responses ==
  { Response(200, b) : b \in Bodies } \cup
  { Response(s, [object |-> "error"]) : s \in Statuses \ {200} }

\* requests.Response.ok, which is also the truth value of a response
ok(r) == r.status_code < 400

\* the HTTPError that response.raise_for_status() raises for r
HTTPError(r) == [type |-> "HTTPError", response |-> r]

\* the exceptions requests.post raises; ConnectTimeout is both a ConnectionError
\* and a Timeout, TooManyRedirects is neither
RequestsExceptions ==
  { [type |-> k] : k \in {"ReadTimeout", "ConnectTimeout", "ConnectionError",
                          "ChunkedEncodingError", "TooManyRedirects"} }
IsTimeout(e) == e.type \in {"ReadTimeout", "ConnectTimeout"}
IsConnectionError(e) == e.type \in {"ConnectionError", "ConnectTimeout"}

\* Clause with the except clause of the connection errors placed first
Clause_ConnectionFirst(e) ==
  IF IsConnectionError(e) \/ e.type = "ChunkedEncodingError" THEN "transient"
  ELSE IF IsTimeout(e) THEN "Timeout"
  ELSE IF e.type = "HTTPError" THEN "HTTPError"
  ELSE "RequestException"

\* the except clause that handles e: the first one that matches
Clause(e) ==
  IF IsTimeout(e) THEN "Timeout"
  ELSE IF IsConnectionError(e) \/ e.type = "ChunkedEncodingError" THEN "transient"
  ELSE IF e.type = "HTTPError" THEN "HTTPError"
  ELSE "RequestException"

\* str(e); for an HTTPError the text raise_for_status builds
StrExc(e) ==
  IF e.type = "HTTPError"
  THEN << ToString(e.response.status_code),
          IF e.response.status_code < 500 THEN " Client Error" ELSE " Server Error",
          " for url: https://api.mistral.ai/v1/chat/completions" >>
  ELSE << e.type >>

\* the messages of the RuntimeErrors, as the pieces the f-strings join
TimeoutMessage == << "Timeout Mistral AI apres ", ToString(timeout_s), "s." >>
NetworkMessage(e) ==
  << "Erreur reseau Mistral AI apres ", ToString(max_retries), " tentatives: " >> \o StrExc(e)
RateLimitMessage == << "Rate limit Mistral AI depasse (429)." >>
InvalidKeyMessage == << "Cle API Mistral invalide (401)." >>
HTTPMessage(status_code, e) ==
  << "Erreur HTTP Mistral AI (",
     IF Has(status_code, "int") THEN ToString(status_code.int) ELSE status_code.str,
     "): " >> \o StrExc(e)
OtherMessage(e) == << "Erreur Mistral AI: " >> \o StrExc(e)

\* status_code = e.response.status_code if e.response else "unknown"
StatusCode(e) ==
  IF ok(e.response) THEN [int |-> e.response.status_code] ELSE [str |-> "unknown"]

\* raise RuntimeError(msg): the invocation ends
Raise(type, msg) ==
  /\ http_raised' = Exc(type, msg)
  /\ http_pc' = "raised"
  /\ UNCHANGED <<http_attempt, sleeps, posts, http_result>>

\* the except clauses of the retry loop
Handle(e) ==
  LET clause == Clause(e) IN
  /\ exc' = e
  /\ last_error' = IF clause = "transient" THEN e ELSE last_error
  /\ IF clause = "Timeout" THEN Raise("RuntimeError", TimeoutMessage)
     ELSE IF clause = "transient"
     THEN IF http_attempt < max_retries - 1
          THEN /\ sleeps' = Append(sleeps, wait_time(http_attempt))
               /\ http_attempt' = http_attempt + 1
               /\ posts' = posts + 1
               /\ http_pc' = "post"
               /\ UNCHANGED <<http_result, http_raised>>
          ELSE Raise("RuntimeError", NetworkMessage(e))
     ELSE IF clause = "HTTPError"
     THEN LET status_code == StatusCode(e) IN
          IF status_code = [int |-> 429] THEN Raise("RuntimeError", RateLimitMessage)
          ELSE IF status_code = [int |-> 401] THEN Raise("RuntimeError", InvalidKeyMessage)
          ELSE Raise("RuntimeError", HTTPMessage(status_code, e))
     ELSE Raise("RuntimeError", OtherMessage(e))

\* generate(prompt, system, ..., json_mode, ...): the payload is built and the
\* first request posted
Generate(system, json_mode) ==
  /\ http_pc \in {"idle", "returned", "raised"}
  /\ payload' = Payload(system, json_mode)
  /\ http_attempt' = 0
  /\ last_error' = None
  /\ response' = None
  /\ exc' = None
  /\ sleeps' = << >>
  /\ posts' = 1
  /\ http_result' = None
  /\ http_raised' = None
  /\ http_pc' = "post"
  /\ UNCHANGED <<agent, pipeline, helpers>>

\* requests.post returned the response r
PostReturns(r) ==
  /\ http_pc = "post"
  /\ response' = r
  /\ IF ~ok(r) THEN Handle(HTTPError(r))
     ELSE /\ exc' = None
          /\ last_error' = last_error
          /\ IF Has(r.body, "choices")
             THEN /\ http_result' = [text |-> Strip(r.body.choices[1].message.content)]
                  /\ http_pc' = "returned"
                  /\ UNCHANGED <<http_attempt, sleeps, posts, http_raised>>
             ELSE Raise("KeyError", << "choices" >>)
  /\ UNCHANGED <<payload, agent, pipeline, helpers>>

\* requests.post raised e
PostRaises(e) ==
  /\ http_pc = "post"
  /\ response' = None
  /\ Handle(e)
  /\ UNCHANGED <<payload, agent, pipeline, helpers>>

\* one client whose transport is invoked again and again; the agent stays idle
TransportInit ==
  /\ AgentInit /\ max_iterations = MaxIterations /\ enable_self_correction
  /\ TransportIdle /\ PipelineIdle /\ HelpersIdle

TransportNext ==
  \/ \E system \in Systems, json_mode \in BOOLEAN : Generate(system, json_mode)
  \/ \E r \in Responses : PostReturns(r)
  \/ \E e \in RequestsExceptions : PostRaises(e)

TransportSpec == TransportInit /\ [][TransportNext]_vars


\* ------------------------------------------------------ LLMClient.generate_json
\* longest generated reply, and the largest max_continuations a caller passes
MaxLen == 3
MaxContinuations == 2

\* the replies of the backend: every text of up to MaxLen of these characters,
\* and a few longer ones (the transport returns its text stripped)
ReplyAlphabet == {"{", "}", "[", "]", "\"", "1"}
ShortTexts == UNION { [1..n -> ReplyAlphabet] : n \in 0..MaxLen }
SampleReplies ==
  { <<"[", "{", "}", "]">>,
    <<"{", "\"", "a", "\"", ":", "1", "}">>,
    <<"[", "1", ",", "{", "\"", "a", "\"", ":", "1", "}", "]">>,
    <<"{", "\"", "a", "\"", ":", "1", "}", " ", "{", "\"", "b", "\"", ":", "2", "}">>,
    <<"\"", "{", "}", "\"">>,
    Fence \o <<"[", "1", "]">> \o Fence,
    Fence \o <<"j", "s", "o", "n", "\n", "{", "\"", "a", "\"", ":", "1", "}", "\n">> \o Fence,
    <<"O", "K", " ", "{", "\"", "a", "\"", ":", "1", ",", "}">>,
    <<"{", "\"", "a", "\"", ":", "\"", "x", "\n", "y", "\"", "}">>,
    <<"{", "\"", "a", "\"", ":", "\"", "\t", ",", "}", "\"", "}">>,
    <<"{", "\"", "a", "\"", ":", "[", "1", ",">>,
    <<"{", "\"", "a", "\"", ":", "{", "\"", "b", "\"", ":", "1", "}", ",">>,
    <<"[", "[", "[", "[", "[">>,
    <<"{", "\n", "\"", "a", "\"", ":", "\n", " ", "x", "}">>,
    <<"n", "o", "n">> }

\* replies that are one object with the defects the repair is for: the object as
\* valid JSON, and as the backend wrote it (trailing commas, raw LF and TAB in
\* its strings), with or without words before and after it
DefectCases ==
  { [object  |-> <<"{", "\"", "a", "\"", ":", "1", "}">>,
     written |-> <<"{", "\"", "a", "\"", ":", "1", "}">>],
    [object  |-> <<"{", "\"", "a", "\"", ":", "1", "}">>,
     written |-> <<"{", "\"", "a", "\"", ":", "1", ",", "}">>],
    [object  |-> <<"{", "\"", "a", "\"", ":", "\"", "x", "\\", "n", "y", "\"", "}">>,
     written |-> <<"{", "\"", "a", "\"", ":", "\"", "x", "\n", "y", "\"", "}">>],
    [object  |-> <<"{", "\"", "a", "\"", ":", "[", "1", ",", "{", "\"", "b", "\"", ":",
                   "\"", "\\", "t", "\"", "}", "]", "}">>,
     written |-> <<"{", "\"", "a", "\"", ":", "[", "1", ",", "{", "\"", "b", "\"", ":",
                   "\"", "\t", "\"", ",", "}", ",", "]", ",", "}">>],
    [object  |-> <<"{", "\"", "a", "\"", ":", "\"", ",", "}", "\"", "}">>,
     written |-> <<"{", "\"", "a", "\"", ":", "\"", ",", "}", "\"", ",", "}">>] }
WordsBefore == { << >>, <<"O", "K", " ">> }
WordsAfter == { << >>, <<" ", ".">> }
DefectReplies ==
  { p \o c.written \o x : p \in WordsBefore, c \in DefectCases, x \in WordsAfter }

Replies == { t \in ShortTexts \cup SampleReplies \cup DefectReplies : Strip(t) = t }

\* the replies to a continuation request
Continuations ==
  { <<"}">>, <<"2", "]", "}">>, <<"2", ",", "]", "}">>, <<"\"", "c", "\"", ":", "2", "}">>, << >> }

\* cleaned[-n:]
LastChars(t, n) == IF Len(t) <= n THEN t ELSE SubSeq(t, Len(t) - n + 1, Len(t))

\* the length of the context of a continuation prompt
tail_chars == 1000

\* the default of excerpt's max_chars (2000 in the source, scaled to the texts here)
max_chars == 4

\* json.JSONDecodeError: the text that was parsed and the index of the error in
\* it; lineno and colno are worked out from the two (both counted from 1)
JSONDecodeError(doc, pos) == [doc |-> doc, pos |-> pos]
lineno(e) == Cardinality({ k \in 1..e.pos : e.doc[k] = "\n" }) + 1
colno(e) ==
  IF \E k \in 1..e.pos : e.doc[k] = "\n"
  THEN e.pos - (CHOOSE k \in 1..e.pos :
                  e.doc[k] = "\n" /\ \A j \in (k + 1)..e.pos : e.doc[j] # "\n") + 1
  ELSE e.pos + 1

\* JSONParseError(message, response=..., cleaned=..., parse_error=...)
JSONParseError(resp, cl, parse_error) ==
  [type |-> "JSONParseError", response |-> resp, cleaned |-> cl,
   parse_error |-> parse_error]

\* text[start:] for a start that is zero or negative
SliceFrom(text, start) == IF start = 0 THEN text ELSE LastChars(text, 0 - start)

\* excerpt without its cut
excerpt_Whole(err, n) == Strip(IF err.cleaned # << >> THEN err.cleaned ELSE err.response)

\* JSONParseError.excerpt(n): the text if it is short, else its head and tail
excerpt(err, n) ==
  Let(Strip(IF err.cleaned # << >> THEN err.cleaned ELSE err.response), LAMBDA text :
    IF Len(text) <= n THEN text
    ELSE SubSeq(text, 1, n \div 2) \o <<"\n", ".", ".", ".", "\n">>
         \o SliceFrom(text, (0 - n) \div 2))

\* JSONParseError.location(): the line and column of the syntax error, if any
location(err) ==
  IF err.parse_error = None THEN << >>
  ELSE << " (ligne ", ToString(lineno(err.parse_error)), ", colonne ",
          ToString(colno(err.parse_error)), ")" >>

\* one attempt: the stage, the text handed to json.loads and what json.loads makes of it
Attempt(st, text) ==
  Let(text, LAMBDA c : [stage |-> st, candidate |-> c, parsed |-> json_loads(c)])

\* Attempts in the order of the spec: the stripped text, then the extractions
Attempts_DirectFirst(text) ==
  Let(strip_code_fences(text), LAMBDA cleaned0 :
    << Attempt("direct-stripped", cleaned0),
       Attempt("complete-object", find_first_complete_json_object(cleaned0)),
       Attempt("loose", extract_json_object(cleaned0)) >>)

\* the texts generate_json hands to json.loads before any continuation, in the
\* order of the code (a candidate that is None is an attempt that is skipped)
Attempts(text) ==
  Let(strip_code_fences(text), LAMBDA cleaned0 :
    << Attempt("complete-object", find_first_complete_json_object(cleaned0)),
       Attempt("direct", text),
       Attempt("direct-stripped", cleaned0),
       Attempt("loose", extract_json_object(cleaned0)),
       Attempt("complete-object", find_first_complete_json_object(cleaned0)) >>)

\* except json.JSONDecodeError: the only outcome of json.loads that is caught
Caught(r) == ~r.ok /\ r.error = "JSONDecodeError"

\* the first attempt that is not caught (it parses, or it raises something
\* else than JSONDecodeError), 0 if every attempt is caught
FirstThatParses(attempts) ==
  IF \E i \in DOMAIN attempts : ~Caught(attempts[i].parsed)
  THEN CHOOSE i \in DOMAIN attempts :
         /\ ~Caught(attempts[i].parsed)
         /\ \A j \in 1..(i - 1) : Caught(attempts[j].parsed)
  ELSE 0

\* return json.loads(...)
Return(v, st) ==
  /\ json_result' = v
  /\ stage' = st
  /\ json_raised' = None
  /\ json_pc' = "returned"

\* json.loads raised what no except clause of generate_json catches
Propagate(r) ==
  /\ json_raised' = [type |-> r.error]
  /\ json_result' = None
  /\ stage' = "none"
  /\ json_pc' = "raised"

\* return json.loads(text), r being what json.loads(text) gives, if it is not caught
ReturnOrPropagate(r, st) == IF r.ok THEN Return(r.v, st) ELSE Propagate(r)

\* candidate = complete or extracted or combined
Candidate(co, ex, comb) == IF co # << >> THEN co ELSE IF ex # << >> THEN ex ELSE comb

\* the repair of the candidate, then the return or the JSONParseError
Repair(resp, cl, candidate) ==
  \E repaired \in {remove_trailing_commas(escape_control_chars_in_strings(candidate))} :
  \E r \in {json_loads(repaired)} :
     IF ~Caught(r) THEN ReturnOrPropagate(r, "repair")
     ELSE /\ json_raised' = JSONParseError(resp, IF repaired # << >> THEN repaired ELSE cl,
                                           JSONDecodeError(repaired, r.pos))
          /\ json_result' = None
          /\ stage' = "none"
          /\ json_pc' = "raised"

\* generate_json(prompt, ..., max_continuations = n) up to its first request
GenerateJson(n) ==
  /\ json_pc \in {"idle", "returned", "raised"}
  /\ max_continuations' = n
  /\ backend_calls' = 1
  /\ reply' = << >> /\ cleaned' = << >> /\ extracted' = << >> /\ complete' = << >>
  /\ combined' = << >> /\ tail' = << >> /\ round' = 0
  /\ stage' = "none" /\ json_result' = None /\ json_raised' = None
  /\ json_pc' = "generate"
  /\ fn' = "none" /\ out' = << >>
  /\ UNCHANGED <<arg, agent, transport>>

\* the first request returned text: the parse attempts, then the return, the
\* first continuation request or the repair
ReplyArrives(text) ==
  /\ json_pc = "generate"
  /\ reply' = text
  /\ \E attempts \in {Attempts(text)}, cl \in {strip_code_fences(text)} :
     \E k \in {FirstThatParses(attempts)} :
        IF k # 0
        THEN /\ ReturnOrPropagate(attempts[k].parsed, attempts[k].stage)
             /\ cleaned' = cl /\ extracted' = << >> /\ complete' = << >>
             /\ combined' = << >> /\ tail' = << >>
             /\ UNCHANGED backend_calls
        ELSE \E ex \in {extract_json_object(cl)}, co \in {find_first_complete_json_object(cl)} :
             /\ cleaned' = cl /\ extracted' = ex /\ complete' = co /\ combined' = cl
             /\ IF max_continuations > 0 /\ is_likely_truncated_json(cl)
                THEN /\ tail' = LastChars(cl, tail_chars)
                     /\ backend_calls' = backend_calls + 1
                     /\ json_pc' = "continuation"
                     /\ UNCHANGED <<stage, json_result, json_raised>>
                ELSE /\ tail' = << >>
                     /\ Repair(text, cl, Candidate(co, ex, cl))
                     /\ UNCHANGED backend_calls
  /\ UNCHANGED <<max_continuations, round, agent, transport, helpers>>

\* a continuation request returned text
ContinuationArrives(text) ==
  /\ json_pc = "continuation"
  /\ \E comb \in {combined \o strip_code_fences(text)} :
     \E complete_after \in {find_first_complete_json_object(comb)} :
     \E r \in {json_loads(complete_after)} :
        /\ combined' = comb
        /\ IF complete_after # << >> /\ ~Caught(r)
           THEN ReturnOrPropagate(r, "continuation") /\ UNCHANGED <<round, backend_calls>>
           ELSE IF round < max_continuations - 1
           THEN /\ round' = round + 1
                /\ backend_calls' = backend_calls + 1
                /\ UNCHANGED <<json_pc, stage, json_result, json_raised>>
           ELSE /\ Repair(reply, cleaned, Candidate(complete, extracted, comb))
                /\ UNCHANGED <<round, backend_calls>>
  /\ UNCHANGED <<max_continuations, reply, cleaned, extracted, complete, tail, agent, transport, helpers>>

\* self.generate raised: the RuntimeError of the transport leaves generate_json
BackendRaises(e) ==
  /\ json_pc \in {"generate", "continuation"}
  /\ json_raised' = e
  /\ json_pc' = "raised"
  /\ UNCHANGED <<max_continuations, reply, cleaned, extracted, complete, combined, tail, round,
                 backend_calls, stage, json_result, agent, transport, helpers>>

\* who caught the JSONParseError asks for its excerpt and for its location
Excerpt ==
  /\ json_pc = "raised" /\ json_raised.type = "JSONParseError"
  /\ fn' = "excerpt"
  /\ out' = excerpt(json_raised, max_chars)
  /\ UNCHANGED <<arg, agent, transport, pipeline>>

Location ==
  /\ json_pc = "raised" /\ json_raised.type = "JSONParseError"
  /\ fn' = "location"
  /\ out' = location(json_raised)
  /\ UNCHANGED <<arg, agent, transport, pipeline>>

\* one client whose generate_json is called again and again; the agent stays idle
PipelineInit ==
  /\ AgentInit /\ max_iterations = MaxIterations /\ enable_self_correction
  /\ TransportIdle /\ PipelineIdle /\ HelpersIdle

PipelineNext ==
  \/ \E n \in 0..MaxContinuations : GenerateJson(n)
  \/ \E text \in Replies : ReplyArrives(text)
  \/ \E text \in Continuations : ContinuationArrives(text)
  \/ \E e \in TransportErrors : BackendRaises(e)
  \/ Excerpt
  \/ Location

PipelineSpec == PipelineInit /\ [][PipelineNext]_vars


\* ------------------------------------------------ the text helpers called alone
\* the characters of the generated arguments
HelperAlphabet == {"{", "}", "\"", ",", "\\", "\n", " "}
HelperShortTexts == UNION { [1..n -> HelperAlphabet] : n \in 0..MaxLen }

\* balanced objects: empty, plain and nested; and with braces, an escaped
\* quote, an escaped backslash and a comma before a brace inside their strings
PlainObjects ==
  { <<"{", "}">>,
    <<"{", "\"", "a", "\"", ":", "1", "}">>,
    <<"{", "\"", "a", "\"", ":", "{", "}", "}">> }
Objects ==
  PlainObjects \cup
  { <<"{", "\"", "}", "\"", ":", "\"", "{", "\"", "}">>,
    <<"{", "\"", "a", "\"", ":", "\"", "\\", "\"", "}", "\"", "}">>,
    <<"{", "\"", "a", "\"", ":", "\"", "\\", "\\", "\"", "}">>,
    <<"{", "\"", "a", "\"", ":", "\"", ",", "}", "\"", "}">> }

\* the text before and after an object
Prefixes == { << >>, <<"O", "K", " ">>, <<"\"">>, <<"}", " ">>, <<"{", " ">> }
Suffixes == { << >>, <<" ", "}">>, <<" ", "{">>, <<"\"">> }
Embedded == { p \o o \o x : p \in Prefixes, o \in Objects, x \in Suffixes }

\* texts with trailing commas and with control characters in and out of strings
Damaged ==
  { <<"[", "1", ",", "]">>,
    <<"[", "1", ",", ",", "]">>,
    <<"{", "\"", "a", "\"", ":", "[", "1", ",", " ", "]", ",", "\n", "}">>,
    <<"{", "\"", "a", "\"", ":", "\"", "x", "\n", "y", "\"", "}">>,
    <<"{", "\"", "a", "\"", ":", "\"", "x", "\r", "\n", "y", "\"", "}">>,
    <<"{", "\"", "a", "\"", ":", "\"", "\t", "^A", "\"", "}">>,
    <<"{", "\n", "\"", "a", "\"", ":", "\t", "\"", "\\", "n", "\"", "\r", "}">>,
    <<"\"", "\\", "\n", "\"">> }

HelperTexts == HelperShortTexts \cup Embedded \cup Damaged

\* each helper is called once on the text arg, which is any of the texts above
FindFirstCompleteJsonObject ==
  /\ fn = "none"
  /\ fn' = "_find_first_complete_json_object"
  /\ out' = find_first_complete_json_object(arg)
  /\ UNCHANGED <<arg, agent, transport, pipeline>>

RemoveTrailingCommas ==
  /\ fn = "none"
  /\ fn' = "_remove_trailing_commas"
  /\ out' = remove_trailing_commas(arg)
  /\ UNCHANGED <<arg, agent, transport, pipeline>>

EscapeControlCharsInStrings ==
  /\ fn = "none"
  /\ fn' = "_escape_control_chars_in_strings"
  /\ out' = escape_control_chars_in_strings(arg)
  /\ UNCHANGED <<arg, agent, transport, pipeline>>

HelpersInit ==
  /\ AgentInit /\ max_iterations = MaxIterations /\ enable_self_correction
  /\ TransportIdle /\ PipelineIdle
  /\ fn = "none"
  /\ arg \in HelperTexts
  /\ out = << >>

HelpersNext ==
  \/ FindFirstCompleteJsonObject
  \/ RemoveTrailingCommas
  \/ EscapeControlCharsInStrings

HelpersSpec == HelpersInit /\ [][HelpersNext]_vars


\* ------------------------------------------------------------------- claims
Running == pc \in {"decide", "execute", "generate", "critique", "correct"}
Last(s) == s[Len(s)]
IsPrefix(s, t) == Len(s) <= Len(t) /\ SubSeq(t, 1, Len(s)) = s

\* C1 (part): while a run is in progress its iteration index stays below
\* max_iterations and it has issued at most one decision request per iteration
\* started; when plan_trip has returned it issued at most max_iterations
\* decision requests and ended by exactly one of its returns: success (PLAN or
\* FINISH), failure by exception, or the max-iterations failure
C1_Bounded ==
  /\ Running => /\ iteration < max_iterations
                /\ calls.decision <= iteration + 1
  /\ pc = "done" =>
       /\ calls.decision <= max_iterations
       /\ result # None
       /\ \/ exit \in {"plan", "finish"} /\ result.success /\ ~Has(result, "error")
          \/ exit = "exception" /\ ~result.success /\ Has(result, "error") /\ raised # None
          \/ /\ exit = "max_iterations" /\ ~result.success
             /\ result.error = "Max iterations" /\ calls.decision = max_iterations

\* C1: for every sequence of backend decisions and collaborator results,
\* plan_trip terminates after at most max_iterations iterations and decision
\* requests, in exactly one of success, failure by exception, max-iterations
C1_Terminates == []C1_Bounded /\ (Running ~> pc = "done")

\* a run that used up all its iterations, one decision request each
C1_Witness ==
  /\ pc = "done" /\ exit = "max_iterations"
  /\ max_iterations >= 2 /\ calls.decision = max_iterations

\* C2: a GEOCODE proposal made when SessionContext already holds a geocode
\* result is executed as WEATHER if there is no weather entry, with lat/lon of
\* the stored geocode result and the dates of the context, and as PLAN if a
\* weather entry exists; the geocode collaborator is not called in that iteration
C2_GeocodeOverride ==
  /\ [](pc = "execute" /\ original_action = "GEOCODE" /\ Has(collected_info, "geocode")
        => IF ~Has(collected_info, "weather")
           THEN /\ action = "WEATHER"
                /\ action_input = [lat |-> collected_info["geocode"].lat,
                                   lon |-> collected_info["geocode"].lon,
                                   start_date |-> collected_info["start_date"],
                                   end_date |-> collected_info["end_date"]]
           ELSE action = "PLAN")
  /\ [][pc = "execute" /\ original_action = "GEOCODE" /\ Has(collected_info, "geocode")
        => calls'.geocode = calls.geocode]_vars

\* a repeated GEOCODE proposal resolved to WEATHER at the stored coordinates
C2_Witness ==
  /\ pc = "execute" /\ original_action = "GEOCODE" /\ Has(collected_info, "geocode")
  /\ action = "WEATHER" /\ action_input.lat = 48 /\ calls.geocode = 1

\* C3: a WEATHER proposal made when SessionContext already holds a weather
\* entry (data, or the empty list marked weather_unavailable) is executed as
\* PLAN, and once a weather entry exists the weather collaborator is not called
\* again in that run
C3_WeatherOverride ==
  /\ [](pc = "execute" /\ original_action = "WEATHER" /\ Has(collected_info, "weather")
        => action = "PLAN")
  /\ [](Get(collected_info, "weather_unavailable", FALSE)
        => Has(collected_info, "weather") /\ collected_info["weather"] = EmptyList)
  /\ [][Has(collected_info, "weather") /\ runs' = runs => calls'.weather = calls.weather]_vars

\* a WEATHER proposal after a lookup that returned nothing, resolved to PLAN
C3_Witness ==
  /\ pc = "execute" /\ original_action = "WEATHER" /\ action = "PLAN"
  /\ Get(collected_info, "weather_unavailable", FALSE) /\ calls.weather = 1

\* C4 as claimed: every iteration, whatever its outcome, appends exactly one
\* ActionRecord, so a returned run has as many records as iterations it ran
\* (each iteration issues exactly one decision request)
C4_Original == pc = "done" => Len(action_history) = calls.decision

\* C4 amended: an iteration that does not end the run (GEOCODE, WEATHER or an
\* unknown action, executed without exception) appends exactly one ActionRecord,
\* an iteration that ends the run (PLAN, FINISH, exception) appends none, and
\* records already in the history are never modified or removed during the run
C4_HistoryAppendOnly ==
  /\ [](pc # "idle" =>
          Len(action_history) = IF exit = "max_iterations" THEN max_iterations ELSE iteration)
  /\ [][runs' = runs =>
          /\ IsPrefix(action_history, action_history')
          /\ Len(action_history') =
               IF pc = "execute" /\ action \notin {"PLAN", "FINISH"} /\ raised' = None
               THEN Len(action_history) + 1 ELSE Len(action_history)]_vars

\* a run ended by PLAN in its third iteration, with two records
C4_Witness ==
  /\ pc = "done" /\ exit = "plan" /\ iteration = 2
  /\ Len(action_history) = 2 /\ calls.decision = 3

C6_ReturnedItineraryValid ==
  (pc = "done" /\ result.success /\ result.itinerary # EmptyDict)
    => ValidItinerary(result.itinerary)

\* C7: any failure during critique or correction is caught and logged,
\* _self_correct returns the original unmodified itinerary, and the run ends
\* with success=true
C7_SelfCorrectionFallback ==
  /\ [](pc \in {"critique", "correct"} =>
          /\ ValidItinerary(itinerary)
          /\ collected_info["itinerary"] = itinerary)
  /\ [][(pc \in {"critique", "correct"} /\ raised' # None)
        => /\ pc' = "done" /\ exit' = "plan"
           /\ result'.success /\ ~Has(result', "error")
           /\ result'.itinerary = itinerary
           /\ itinerary' = itinerary /\ collected_info' = collected_info
           /\ IsPrefix(logs, logs')
           /\ SubSeq(logs', Len(logs') - 1, Len(logs')) =
                << Line("ERREUR lors de la self-correction", raised'.msg),
                   Line("Retour de l'itineraire original", "") >>
           /\ result'.logs = logs']_vars

\* a correction request failed and the run returned the original itinerary
C7_Witness ==
  /\ pc = "done" /\ exit = "plan" /\ raised # None /\ calls.correct = 1
  /\ result.success /\ result.itinerary = itinerary

\* C8 as claimed: a fatal transport error raised by any backend call of a run
\* aborts the run with success=false and the error message
C8_Original ==
  raised \in TransportErrors
    => pc = "done" /\ ~result.success /\ result.error = raised.msg

\* C8 amended: a fatal transport error raised by the decision request or by a
\* generation request propagates at once and aborts the run with success=false
\* and the error message, without another generation attempt; raised by the
\* critique or the correction request it is caught by self-correction and the
\* run ends with success=true and the original itinerary
C8_TransportErrorAborts ==
  [][(raised' \in TransportErrors /\ runs' = runs)
     => IF pc \in {"decide", "generate"}
        THEN /\ pc' = "done" /\ exit' = "exception"
             /\ ~result'.success /\ result'.error = raised'.msg
             /\ attempt' = attempt /\ calls'.generate <= calls.generate + 1
        ELSE /\ pc \in {"critique", "correct"}
             /\ pc' = "done" /\ exit' = "plan"
             /\ result'.success /\ result'.itinerary = itinerary]_vars

\* the first generation request failed fatally and the run was aborted at once
C8_Witness ==
  /\ pc = "done" /\ exit = "exception" /\ raised \in TransportErrors
  /\ calls.generate = 1 /\ attempt = 0 /\ result.error = raised.msg

\* C9: a parse failure or schema validation failure of a generation attempt is
\* retried while fewer than 2 attempts were made; when the second attempt fails
\* too the error propagates and the run ends unsuccessful; a successful attempt
\* stores the validated itinerary in SessionContext
C9_GenerationRetry ==
  /\ [](/\ calls.generate <= PlanMaxRetries
        /\ pc = "generate" => attempt < PlanMaxRetries /\ calls.generate = attempt)
  /\ [][(pc = "generate" /\ raised' # None
         /\ raised'.type \in {"JSONParseError", "ValidationError"})
        => IF attempt < PlanMaxRetries - 1
           THEN /\ pc' = "generate" /\ attempt' = attempt + 1
                /\ result' = None /\ collected_info' = collected_info
           ELSE /\ pc' = "done" /\ exit' = "exception"
                /\ ~result'.success /\ result'.error = raised'.msg]_vars
  /\ [][(pc = "generate" /\ raised' = None /\ calls' # calls)
        => /\ Has(collected_info', "itinerary")
           /\ ValidItinerary(collected_info'["itinerary"])
           /\ itinerary' = collected_info'["itinerary"]
           /\ pc' \in {"critique", "done"} /\ exit' \in {"none", "plan"}]_vars

\* the second generation attempt succeeded after the first one failed
C9_Witness ==
  /\ pc = "done" /\ exit = "plan" /\ calls.generate = 2
  /\ Has(collected_info, "itinerary") /\ result.success

\* C10 as claimed: once the weather lookup returned nothing, the run still
\* ends with an itinerary produced
C10_Original ==
  (pc = "done" /\ Get(collected_info, "weather_unavailable", FALSE))
    => /\ Has(collected_info, "itinerary")
       /\ result.itinerary # EmptyDict

\* C10 amended: a weather lookup that returns an empty sequence raises no error,
\* sets weather_unavailable with an empty weather entry, is recorded and lets
\* the loop go on; a PLAN made afterwards generates the itinerary in degraded
\* mode.  (The run can still end without an itinerary: FINISH, an exception or
\* the iteration bound.)
C10_WeatherUnavailable ==
  /\ [][calls'.weather = calls.weather + 1
        => /\ raised' = None /\ exit' # "exception"
           /\ Has(collected_info', "weather")
           /\ (collected_info'["weather"] = EmptyList
                 <=> Get(collected_info', "weather_unavailable", FALSE))
           /\ Len(action_history') = Len(action_history) + 1]_vars
  /\ []((exit = "plan" /\ Get(collected_info, "weather_unavailable", FALSE))
        => /\ Has(collected_info, "itinerary")
           /\ ValidItinerary(collected_info["itinerary"])
           /\ result.weather = EmptyList
           /\ \E i \in DOMAIN logs : logs[i].tag = "Mode degrade")

\* an itinerary was produced in degraded mode after an empty weather lookup
C10_Witness ==
  /\ pc = "done" /\ exit = "plan" /\ result.success /\ calls.weather = 1
  /\ Get(collected_info, "weather_unavailable", FALSE)
  /\ collected_info["weather"] = EmptyList

\* C11: when the action is PLAN and generation and validation succeed, the run
\* ends in that same iteration with success = true and returns the itinerary
\* (the validated one, or what self-correction made of it); no decision
\* request follows
C11_PlanEndsRun ==
  /\ [](Has(collected_info, "itinerary") => pc \in {"critique", "correct", "done"})
  /\ [][(pc = "generate" /\ Has(collected_info', "itinerary"))
        => /\ ValidItinerary(collected_info'["itinerary"])
           /\ itinerary' = collected_info'["itinerary"]
           /\ iteration' = iteration /\ calls'.decision = calls.decision
           /\ IF enable_self_correction
              THEN pc' = "critique"
              ELSE pc' = "done" /\ exit' = "plan" /\ result'.itinerary = itinerary']_vars
  /\ [][(pc = "critique" \/ pc = "correct")
        => /\ pc' \in {"correct", "done"}
           /\ iteration' = iteration /\ calls'.decision = calls.decision
           /\ (pc' = "done" => exit' = "plan")]_vars
  /\ [](exit = "plan"
        => /\ pc = "done" /\ result.success /\ action = "PLAN"
           /\ result.metrics.iterations = iteration + 1
           /\ calls.decision = iteration + 1
           /\ result.itinerary \in
                {itinerary} \cup (IF calls.correct = 1 THEN CorrectionReplies ELSE {}))
  /\ (Has(collected_info, "itinerary") ~> (pc = "done" /\ exit = "plan"))

\* a PLAN in the second iteration ended the run with the validated itinerary
C11_Witness ==
  /\ pc = "done" /\ exit = "plan" /\ iteration = 1 /\ calls.decision = 2
  /\ ~enable_self_correction /\ calls.generate = 1
  /\ result.itinerary = collected_info["itinerary"]

\* C12: FINISH ends the run at once with success = true and returns the
\* itinerary of SessionContext if there is one (else an empty mapping), the
\* weather if there is one (else an empty sequence) and the accumulated logs
C12_FinishEndsRun ==
  [][(pc = "execute" /\ action = "FINISH")
     => /\ pc' = "done" /\ exit' = "finish" /\ result'.success
        /\ result'.itinerary = Get(collected_info, "itinerary", EmptyDict)
        /\ result'.weather = Get(collected_info, "weather", EmptyList)
        /\ result'.logs = logs' /\ IsPrefix(logs, logs')
        /\ DOMAIN result' = {"itinerary", "logs", "weather", "success"}
        /\ calls' = calls /\ collected_info' = collected_info
        /\ action_history' = action_history /\ iteration' = iteration]_vars

\* FINISH after a weather lookup: the weather is in the bundle, no itinerary
C12_Witness ==
  /\ pc = "done" /\ exit = "finish" /\ result.success
  /\ result.weather = << WeatherDay >> /\ result.itinerary = EmptyDict
  /\ Last(logs) = Line("FINISH", "Agent termine")

\* C13: an action name that is none of GEOCODE, WEATHER, PLAN, FINISH is logged
\* as an error, calls no collaborator and leaves SessionContext unchanged; the
\* run goes on with the next iteration, and the iteration counts toward the bound
C13_UnknownAction ==
  [][(pc = "execute" /\ action \notin {"GEOCODE", "WEATHER", "PLAN", "FINISH"})
     => /\ \E i \in DOMAIN logs' : i > Len(logs) /\ logs'[i] = Line("ERREUR", "Action inconnue")
        /\ IsPrefix(logs, logs')
        /\ calls' = calls /\ collected_info' = collected_info
        /\ raised' = None
        /\ action_history' = Append(action_history,
                                    [action |-> action, input |-> action_input, result |-> None])
        /\ IF iteration + 1 < max_iterations
           THEN pc' = "decide" /\ iteration' = iteration + 1 /\ exit' = "none"
           ELSE pc' = "done" /\ exit' = "max_iterations"]_vars

\* a decision without an action name was skipped and the loop went on
C13_Witness ==
  /\ pc = "decide" /\ iteration = 1 /\ Len(action_history) = 1
  /\ action_history[1].action = "" /\ action_history[1].result = None
  /\ collected_info = Request /\ calls.decision = 1

\* C14: when max_iterations iterations complete without a successful PLAN, a
\* FINISH or an exception, the run returns success = false with the error
\* "Max iterations", the itinerary and weather of SessionContext if present
\* (else empty) and the logs
C14_MaxIterations ==
  /\ [](exit = "max_iterations"
        => /\ pc = "done" /\ ~result.success /\ result.error = "Max iterations"
           /\ result.itinerary = Get(collected_info, "itinerary", EmptyDict)
           /\ result.weather = Get(collected_info, "weather", EmptyList)
           /\ result.logs = logs
           /\ Last(logs) = Line("ATTENTION", "Nombre max d'iterations atteint")
           /\ iteration + 1 = max_iterations \/ max_iterations = 0
           /\ Len(action_history) = max_iterations
           /\ calls.generate = 0 /\ raised = None)
  /\ [][(pc = "execute" /\ pc' = "done" /\ exit' \notin {"plan", "finish", "exception"})
        => /\ exit' = "max_iterations"
           /\ iteration + 1 = max_iterations
           /\ Len(action_history') = max_iterations]_vars
  /\ [][(pc = "execute" /\ iteration + 1 = max_iterations /\ pc' # "done")
        => pc' = "generate"]_vars

\* the iterations ran out after the weather was collected: it is in the bundle
C14_Witness ==
  /\ pc = "done" /\ exit = "max_iterations" /\ max_iterations = 2
  /\ result.weather = << WeatherDay >> /\ result.itinerary = EmptyDict
  /\ ~result.success

\* C15: self-correction makes at most one critique request followed by at most
\* one correction request per run; a corrected itinerary is never critiqued again
C15_OneCycle ==
  /\ [](/\ calls.critique <= 1 /\ calls.correct <= calls.critique
        /\ ~enable_self_correction => calls.critique = 0
        /\ pc = "correct" => calls.critique = 1 /\ calls.correct = 0
        /\ pc = "critique" => calls.critique = 0 /\ calls.correct = 0)
  /\ [][calls'.correct = calls.correct + 1 => pc' = "done" /\ calls'.critique = calls.critique]_vars
  /\ [][calls'.critique = calls.critique + 1 => calls.generate >= 1 /\ calls.correct = 0]_vars

\* one critique and one correction were made and the corrected itinerary returned
C15_Witness ==
  /\ pc = "done" /\ exit = "plan" /\ calls.critique = 1 /\ calls.correct = 1
  /\ raised = None /\ result.itinerary = RawGood2

\* C16 as stated: after a critique, the original itinerary is returned
\* unchanged with no correction request if and only if the critique has
\* is_valid true and an empty issues list; in every other case (is_valid false
\* or missing, or any issue listed) a correction request is issued.  Stated for
\* a critique reply that is a JSON object.
C16_Original ==
  [][(calls'.critique = calls.critique + 1 /\ critique' # None
        /\ critique' # ListResult(EmptyList))
     => LET accepted == /\ Get(critique', "is_valid", FALSE)
                        /\ Get(critique', "issues", EmptyList) = EmptyList
        IN /\ (pc' = "done" /\ result'.itinerary = itinerary /\ calls'.correct = 0) <=> accepted
           /\ ~accepted => pc' = "correct"]_vars

\* C16 amended: after the critique request, the original itinerary is returned
\* unchanged with no correction request if and only if either the critique has
\* is_valid true and an empty issues list, or the critique failed (the request
\* raised, the reply is no JSON object, or an entry of issues is no object);
\* in every other case a correction request is issued
C16_CritiqueDecides ==
  [][calls'.critique = calls.critique + 1
     => LET issues == Get(critique', "issues", EmptyList)
            accepted == Get(critique', "is_valid", FALSE) /\ issues = EmptyList
            failed == \/ critique' = None
                      \/ critique' = ListResult(EmptyList)
                      \/ \E i \in DOMAIN issues : issues[i] = None
        IN /\ pc' = "done" <=> (accepted \/ failed)
           /\ pc' = "correct" <=> (~accepted /\ ~failed)
           /\ failed <=> raised' # None
           /\ pc' = "done" => /\ exit' = "plan" /\ result'.success
                              /\ result'.itinerary = itinerary
                              /\ calls'.correct = 0
           /\ UNCHANGED <<itinerary, collected_info>>]_vars

\* a critique that is valid but lists an issue: the correction is requested
C16_Witness ==
  /\ pc = "correct" /\ calls.critique = 1 /\ calls.correct = 0
  /\ Get(critique, "is_valid", FALSE) /\ Get(critique, "issues", EmptyList) = << Issue >>

C18_FatalRaisesAtOnce ==
  /\ [][(http_pc = "post"
           /\ Get(exc', "type", "") \in {"ReadTimeout", "ConnectTimeout", "HTTPError"})
        => /\ http_pc' = "raised" /\ http_raised'.type = "RuntimeError"
           /\ posts' = posts /\ sleeps' = sleeps /\ http_attempt' = http_attempt
           /\ http_result' = None]_vars
  /\ [][(http_pc = "post" /\ response' # None /\ response'.status_code >= 400)
        => Get(exc', "type", "") = "HTTPError"]_vars
  /\ [][http_pc = "raised" => http_pc' = "post" /\ posts' = 1 /\ sleeps' = << >>]_vars

\* a 429 response after two transient failures ended the invocation
C18_Witness ==
  /\ http_pc = "raised" /\ Get(exc, "type", "") = "HTTPError"
  /\ response.status_code = 429
  /\ posts = 3 /\ sleeps = << 3, 6 >> /\ last_error # None

\* C19: the transport reports the failure kind distinctly: a 429 response
\* yields the rate-limit message, a 401 response the invalid-credentials
\* message, any other HTTP error status a generic HTTP error message that
\* includes the numeric status code
C19_DistinctMessages ==
  (http_pc = "raised" /\ response # None /\ response.status_code >= 400)
    => /\ http_raised.type = "RuntimeError"
       /\ IF response.status_code = 429 THEN http_raised.msg = RateLimitMessage
          ELSE IF response.status_code = 401 THEN http_raised.msg = InvalidKeyMessage
          ELSE /\ http_raised.msg[1] = "Erreur HTTP Mistral AI ("
               /\ \E i \in DOMAIN http_raised.msg :
                     http_raised.msg[i] = ToString(response.status_code)

\* C20 as stated: whenever generate_json returns and the fence-stripped reply
\* is itself valid JSON, the returned value is the parse of that whole text
C20_Original ==
  (json_pc = "returned" /\ json_loads(strip_code_fences(reply)).ok)
    => json_result = json_loads(strip_code_fences(reply)).v

\* C20: generate_json returns the result of the first stage that parses, in
\* this order: the first complete object found in the fence-stripped reply,
\* the raw reply, the fence-stripped reply, the loose extraction, then the
\* continuation and the repair, which are only reached when none of the four
\* parses.  So the first complete object inside the fence-stripped reply wins
\* over the parse of the whole text whenever that object parses, and the
\* whole text is what is returned only when it does not.
C20_FirstStageWins ==
  json_pc = "returned" =>
    LET cl == strip_code_fences(reply)
        co == json_loads(find_first_complete_json_object(cl))
        raw == json_loads(reply)
        direct == json_loads(cl)
        ex == json_loads(extract_json_object(cl))
    IN /\ co.ok => json_result = co.v /\ stage = "complete-object"
       /\ ~co.ok /\ raw.ok => json_result = raw.v /\ stage = "direct"
       /\ ~co.ok /\ ~raw.ok /\ direct.ok => json_result = direct.v /\ stage = "direct-stripped"
       /\ ~co.ok /\ ~raw.ok /\ ~direct.ok /\ ex.ok => json_result = ex.v /\ stage = "loose"
       /\ ~co.ok /\ ~raw.ok /\ ~direct.ok /\ ~ex.ok => stage \in {"continuation", "repair"}
       /\ backend_calls > 1 => stage \in {"continuation", "repair"}
       /\ stage = "continuation" => backend_calls > 1

\* the reply [{}] is valid JSON as a whole, and the object inside it was returned
C20_Witness ==
  /\ json_pc = "returned" /\ reply = << "[", "{", "}", "]" >>
  /\ json_loads(strip_code_fences(reply)) = [ok |-> TRUE, v |-> [array |-> << [object |-> << >>] >>]]
  /\ stage = "complete-object" /\ json_result = [object |-> << >>]

\* C21: for every reply text, provided the transport calls succeed,
\* generate_json ends with either a parsed value or a JSONParseError: no
\* other exception type escapes
C21_ParsedOrParseError ==
  /\ json_pc = "returned" => json_result # None /\ json_raised = None
  /\ (json_pc = "raised" /\ json_raised \notin TransportErrors)
       => json_raised.type = "JSONParseError" /\ json_result = None

\* the text has a "{"
HasBrace(t) == \E i \in DOMAIN t : t[i] = "{"

\* some "{" of the text opens a depth-balanced object that closes within the text
ContainsBalancedObject(t) ==
  \E i \in DOMAIN t : t[i] = "{" /\ find_first_complete_json_object(Drop(t, i - 1)) # << >>

\* C22 as stated: a continuation is requested only when the fence-stripped
\* reply has a "{" but contains no depth-balanced complete object
C22_Original ==
  json_pc = "continuation" =>
    max_continuations > 0 /\ HasBrace(cleaned) /\ ~ContainsBalancedObject(cleaned)

\* C22: continuation requests are issued only when max_continuations N > 0
\* and the fence-stripped reply is classified likely-truncated, i.e. it has a
\* "{" and the object that its first "{" opens is not closed within the text;
\* at most N continuation requests are made per call, so at most 1 + N backend
\* invocations, and the rounds stop after N whether or not a complete object
\* was found
C22_Continuations ==
  /\ [](backend_calls <= 1 + max_continuations)
  /\ [](json_pc = "continuation" =>
          /\ max_continuations > 0 /\ round < max_continuations
          /\ backend_calls = round + 2
          /\ HasBrace(cleaned)
          /\ find_first_complete_json_object(cleaned) = << >>)
  /\ [](backend_calls > 1 =>
          /\ max_continuations > 0 /\ HasBrace(cleaned)
          /\ find_first_complete_json_object(cleaned) = << >>)
  /\ [][(json_pc = "continuation" /\ round = max_continuations - 1)
          => json_pc' \in {"returned", "raised"} /\ backend_calls' = backend_calls]_vars
  /\ [][backend_calls' > backend_calls
          => backend_calls' = backend_calls + 1 /\ json_pc' \in {"generate", "continuation"}]_vars

\* with N = 2, two continuations were requested, none completed the object,
\* and the call ended after the second
C22_Witness ==
  /\ json_pc = "raised" /\ json_raised.type = "JSONParseError"
  /\ max_continuations = 2 /\ backend_calls = 3
  /\ find_first_complete_json_object(combined) = << >>

\* C23 as stated: for an input made of any prefix text, a balanced object
\* (without braces inside its strings) and any suffix text,
\* _find_first_complete_json_object returns exactly that object's text
C23_Original ==
  fn = "_find_first_complete_json_object" =>
    \A p \in Prefixes, o \in PlainObjects, x \in Suffixes :
       arg = p \o o \o x => out = o

\* C23: for an input made of a prefix text without "{", a balanced object and
\* any suffix text, _find_first_complete_json_object returns exactly that
\* object's text, braces, escaped quotes and escaped backslashes inside its
\* quoted strings being non-structural; a "{" in the prefix is where the scan
\* starts instead, and without a "{" in the input the result is None
C23_FirstObject ==
  fn = "_find_first_complete_json_object" =>
    /\ \A p \in Prefixes, o \in Objects, x \in Suffixes :
          (arg = p \o o \o x /\ ~HasBrace(p)) => out = o
    /\ ~HasBrace(arg) => out = << >>
    /\ out # << >> => \E i, j \in DOMAIN arg :
                         /\ out = SubSeq(arg, i, j)
                         /\ arg[i] = "{" /\ arg[j] = "}" /\ ~HasBrace(SubSeq(arg, 1, i - 1))

\* the object with an escaped quote and a brace in its string was found
\* between commentary and a stray closing brace
C23_Witness ==
  /\ fn = "_find_first_complete_json_object"
  /\ arg = <<"O", "K", " ">>
           \o <<"{", "\"", "a", "\"", ":", "\"", "\\", "\"", "}", "\"", "}">> \o <<" ", "}">>
  /\ out = <<"{", "\"", "a", "\"", ":", "\"", "\\", "\"", "}", "\"", "}">>

\* the contents of the closed string literals of a text, in order: a quote
\* opens a literal, the next quote that no backslash escapes closes it
RECURSIVE StringsFrom(_, _, _, _, _)
StringsFrom(t, i, in_string, escaped, current) ==
  IF i > Len(t) THEN << >>
  ELSE IF ~in_string THEN StringsFrom(t, i + 1, t[i] = "\"", FALSE, << >>)
  ELSE IF escaped THEN StringsFrom(t, i + 1, TRUE, FALSE, Append(current, t[i]))
  ELSE IF t[i] = "\\" THEN StringsFrom(t, i + 1, TRUE, TRUE, Append(current, t[i]))
  ELSE IF t[i] = "\"" THEN << current >> \o StringsFrom(t, i + 1, FALSE, FALSE, << >>)
  ELSE StringsFrom(t, i + 1, TRUE, FALSE, Append(current, t[i]))
StringLiterals(t) == StringsFrom(t, 1, FALSE, FALSE, << >>)

\* the characters of a text that are outside its string literals, in order
\* (the quote that opens a literal is outside, the one that closes it inside)
RECURSIVE OutsideFrom(_, _, _, _)
OutsideFrom(t, i, in_string, escaped) ==
  IF i > Len(t) THEN << >>
  ELSE IF ~in_string THEN << t[i] >> \o OutsideFrom(t, i + 1, t[i] = "\"", FALSE)
  ELSE IF escaped THEN OutsideFrom(t, i + 1, TRUE, FALSE)
  ELSE IF t[i] = "\\" THEN OutsideFrom(t, i + 1, TRUE, TRUE)
  ELSE IF t[i] = "\"" THEN OutsideFrom(t, i + 1, FALSE, FALSE)
  ELSE OutsideFrom(t, i + 1, TRUE, FALSE)
OutsideChars(t) == OutsideFrom(t, 1, FALSE, FALSE)

\* C24: trailing-comma removal never alters commas that lie inside string
\* values: the content of each string literal is identical before and after
\* _remove_trailing_commas
C24_StringsUntouched ==
  fn = "_remove_trailing_commas" => StringLiterals(out) = StringLiterals(arg)

\* s is t with some of its commas left out
RECURSIVE CommasDropped(_, _)
CommasDropped(s, t) ==
  IF s = << >> THEN \A i \in DOMAIN t : t[i] = ","
  ELSE IF t = << >> THEN FALSE
  ELSE \/ Head(s) = Head(t) /\ CommasDropped(Tail(s), Tail(t))
       \/ Head(t) = "," /\ CommasDropped(s, Tail(t))

\* C25: trailing-comma removal is idempotent for every input, including
\* nested and repeated trailing commas; the result contains no comma followed
\* only by whitespace and then a closing brace or bracket, and differs from the
\* input by dropped commas only
C25_Idempotent ==
  fn = "_remove_trailing_commas" =>
    /\ remove_trailing_commas(out) = out
    /\ \A i \in DOMAIN out :
          out[i] = "," =>
            ~\E j \in (i + 1)..Len(out) :
                /\ out[j] \in {"}", "]"}
                /\ \A k \in (i + 1)..(j - 1) : out[k] \in {" ", "\t", "\n", "\r", "\f"}
    /\ CommasDropped(out, arg)

\* the commas before the bracket and before the brace were both dropped, the
\* whitespace after them staying
C25_Witness ==
  /\ fn = "_remove_trailing_commas"
  /\ arg = <<"{", "\"", "a", "\"", ":", "[", "1", ",", " ", "]", ",", "\n", "}">>
  /\ out = <<"{", "\"", "a", "\"", ":", "[", "1", " ", "]", "\n", "}">>

\* C26: control-character escaping is idempotent (escaping an already-escaped
\* text returns it unchanged) and never modifies characters outside string
\* literals: every character outside a quoted string appears unchanged and
\* in the same order in the output
C26_EscapeIdempotent ==
  fn = "_escape_control_chars_in_strings" =>
    /\ escape_control_chars_in_strings(out) = out
    /\ OutsideChars(out) = OutsideChars(arg)
    /\ Len(StringLiterals(out)) = Len(StringLiterals(arg))

\* control characters outside the string were kept, the text being already
\* escaped inside it
C26_Witness ==
  /\ fn = "_escape_control_chars_in_strings"
  /\ arg = <<"{", "\n", "\"", "a", "\"", ":", "\t", "\"", "\\", "n", "\"", "\r", "}">>
  /\ out = arg

\* C27: a reply that is one JSON object whose only defects are words around it,
\* trailing commas before a closing brace or bracket and raw LF or TAB
\* characters inside its strings is parsed to the value of that object, with
\* one backend request and no continuation.
C27_DefectsRepaired ==
  \A c \in DefectCases, p \in WordsBefore, x \in WordsAfter :
     reply = p \o c.written \o x
       => /\ json_pc = "returned"
          /\ json_result = json_loads(c.object).v
          /\ backend_calls = 1

\* the line and the column (both from 1) of the character at index pos (from 0)
LineAt(doc, pos) == 1 + Cardinality({ k \in 1..pos : doc[k] = "\n" })
ColumnAt(doc, pos) ==
  1 + Cardinality({ k \in 1..pos : \A j \in k..pos : doc[j] # "\n" })

\* o is text, or no more than n characters of its head and tail around a mark
HeadAndTail(o, text, n) ==
  \/ Len(text) <= n /\ o = text
  \/ /\ Len(text) > n
     /\ \E h, l \in 0..n :
          /\ h + l <= n
          /\ o = SubSeq(text, 1, h) \o <<"\n", ".", ".", ".", "\n">>
                 \o SubSeq(text, Len(text) - l + 1, Len(text))

\* C28: a JSONParseError raised by generate_json carries the reply as it came,
\* the repaired candidate (the stripped text if that is empty) and the syntax
\* error of parsing that candidate; its location names the line and column of
\* that error and its excerpt is the text or a bounded head and tail of it.
C28_ParseErrorCarries ==
  (json_pc = "raised" /\ json_raised.type = "JSONParseError") =>
    \E repaired \in { remove_trailing_commas(escape_control_chars_in_strings(
                         Candidate(complete, extracted, combined))) } :
    \E text \in { Strip(IF json_raised.cleaned # << >> THEN json_raised.cleaned
                         ELSE json_raised.response) } :
      /\ json_raised.response = reply
      /\ json_raised.cleaned = IF repaired # << >> THEN repaired ELSE cleaned
      /\ json_raised.parse_error.doc = repaired
      /\ json_loads(repaired) = Fail(json_raised.parse_error.pos)
      /\ fn = "location" =>
            out = << " (ligne ", ToString(LineAt(repaired, json_raised.parse_error.pos)),
                     ", colonne ", ToString(ColumnAt(repaired, json_raised.parse_error.pos)),
                     ")" >>
      /\ fn = "excerpt" => HeadAndTail(out, text, max_chars)

\* a JSONParseError whose candidate is not the reply and is longer than the
\* excerpt allows, the excerpt taken
C28_Witness ==
  /\ json_pc = "raised" /\ json_raised.type = "JSONParseError"
  /\ json_raised.cleaned # json_raised.response
  /\ json_raised.cleaned # cleaned
  /\ Len(Strip(json_raised.cleaned)) > max_chars
  /\ fn = "excerpt"
  /\ Len(out) = max_chars + 5

\* what the override rules make of the proposal of action a with input inp in
\* the SessionContext ci: a table over these three alone
Resolved(ci, a, inp) ==
  CASE a = "GEOCODE" /\ Has(ci, "geocode") /\ ~Has(ci, "weather") ->
         << "WEATHER", [lat |-> ci["geocode"].lat, lon |-> ci["geocode"].lon,
                        start_date |-> ci["start_date"], end_date |-> ci["end_date"]] >>
    [] a = "GEOCODE" /\ Has(ci, "geocode") /\ Has(ci, "weather") -> << "PLAN", EmptyDict >>
    [] a = "WEATHER" /\ (Has(ci, "weather") \/ Get(ci, "weather_unavailable", FALSE)) ->
         << "PLAN", EmptyDict >>
    [] OTHER -> << a, inp >>

\* C29: the override rules are deterministic: the resolved action and input
\* are one function of the SessionContext, the proposed action and the
\* proposed input, whatever the action history, the iteration and the earlier
\* runs.
C29_Deterministic ==
  [][(pc = "decide" /\ pc' = "execute")
       => \E d \in Decisions :
            /\ original_action' = Get(d, "action", "")
            /\ << action', action_input' >>
                 = Resolved(collected_info, Get(d, "action", ""),
                            Get(d, "action_input", EmptyDict))]_vars

\* in a second run and a later iteration, a repeated GEOCODE proposal resolved
\* as it is in a first run
C29_Witness ==
  /\ pc = "execute" /\ runs = 2 /\ iteration >= 2
  /\ Len(action_history) >= 2
  /\ original_action = "GEOCODE" /\ action = "WEATHER"

\* C30: whenever a continuation request is out, the context it was given is
\* the trailing tail_chars characters of the text accumulated so far: the
\* stripped reply and the continuations of the earlier rounds.
C30_ContextIsTrailingText ==
  json_pc = "continuation" => tail = LastChars(combined, tail_chars)

\* the two repairs of generate_json applied to a text
Repaired(text) == remove_trailing_commas(escape_control_chars_in_strings(text))

\* C31: when continuation rounds ran and the accumulated text (the reply and
\* its continuations) is valid JSON but for trailing commas and raw control
\* characters in strings, generate_json parses it: the repair is applied to a
\* candidate that includes the continuations.
C31_RepairIncludesContinuation ==
  (/\ json_pc \in {"returned", "raised"}
   /\ json_raised \notin TransportErrors
   /\ backend_calls > 1
   /\ json_loads(Repaired(combined)).ok)
    => json_pc = "returned"

\* C32: when no earlier stage parsed and escaping the control characters of
\* the candidate alone makes it parseable, generate_json returns the parse of
\* the escaped text: the removal of trailing commas has not changed it.
C32_ParseAfterEachRepair ==
  (\/ json_pc = "returned" /\ stage = "repair"
   \/ json_pc = "raised" /\ json_raised.type = "JSONParseError")
    => \A e \in { json_loads(escape_control_chars_in_strings(
                                Candidate(complete, extracted, combined))) } :
         e.ok => json_pc = "returned" /\ json_result = e.v

\* the OVERRIDE lines of the log of a run
Overrides(lg) == { i \in DOMAIN lg : lg[i].tag = "OVERRIDE" }
IterationHeaders(lg) == { i \in DOMAIN lg : lg[i].tag = "--- Iteration" }

\* C33: within a run the geocode collaborator is called only when no geocode
\* result is stored and the weather collaborator only when there is no weather
\* entry, so the weather collaborator is called at most once per run; and no
\* iteration logs more than one override.
C33_CalledOnlyWhenMissing ==
  /\ [](calls.weather <= 1)
  /\ [](\A i, j \in Overrides(logs) :
          i < j => \E h \in IterationHeaders(logs) : i < h /\ h < j)
  /\ [][/\ (runs' = runs /\ calls'.geocode # calls.geocode)
            => ~Has(collected_info, "geocode")
        /\ (runs' = runs /\ calls'.weather # calls.weather)
            => ~Has(collected_info, "weather")]_vars

\* a run that called geocode twice (the first lookup found nothing) and then
\* weather once
C33_Witness ==
  /\ calls.geocode = 2 /\ calls.weather = 1
  /\ Has(collected_info, "geocode") /\ Has(collected_info, "weather")

\* C34: weather_unavailable set means a weather entry that is the empty list;
\* a weather entry without the flag is not empty; and within a run the flag,
\* once set, stays set and the weather entry does not change any more.
C34_WeatherFlag ==
  /\ [](Get(collected_info, "weather_unavailable", FALSE)
          => Has(collected_info, "weather") /\ collected_info["weather"] = EmptyList)
  /\ []((Has(collected_info, "weather") /\ ~Get(collected_info, "weather_unavailable", FALSE))
          => collected_info["weather"] # EmptyList)
  /\ [][(runs' = runs /\ Get(collected_info, "weather_unavailable", FALSE))
          => /\ Get(collected_info', "weather_unavailable", FALSE)
             /\ collected_info'["weather"] = collected_info["weather"]]_vars

\* the flag set in an earlier iteration and still there at a later decision
C34_Witness ==
  /\ pc = "decide" /\ iteration >= 2
  /\ Get(collected_info, "weather_unavailable", FALSE)
  /\ calls.weather = 1

\* C35: when a repeated GEOCODE proposal has been resolved to WEATHER at the
\* stored coordinates, the weather collaborator is called in that iteration
\* and the SessionContext then holds a weather entry, whatever the stored
\* coordinates are.
C35_OverrideCallsWeather ==
  [][(pc = "execute" /\ original_action = "GEOCODE" /\ action = "WEATHER")
       => /\ calls'.weather = calls.weather + 1
          /\ Has(collected_info', "weather")]_vars

\* C36: the itinerary of the SessionContext is written only by a successful
\* PLAN, after which the run ends without another decision; so no decision
\* sees an itinerary, and the FINISH and the max-iterations exits return the
\* empty itinerary, FINISH with success = true.
C36_ItineraryOnlyByPlan ==
  /\ [](pc \in {"decide", "execute"} => ~Has(collected_info, "itinerary"))
  /\ []((pc = "done" /\ exit \in {"finish", "max_iterations"})
          => /\ result.itinerary = EmptyDict
             /\ result.success = (exit = "finish"))
  /\ [][(runs' = runs /\ Has(collected_info', "itinerary") /\ ~Has(collected_info, "itinerary"))
          => pc = "generate" /\ action = "PLAN" /\ calls'.generate = calls.generate + 1]_vars
  /\ [][(runs' = runs /\ Has(collected_info, "itinerary"))
          => /\ collected_info' = collected_info
             /\ iteration' = iteration /\ calls'.decision = calls.decision
             /\ pc' \in {"critique", "correct", "done"}]_vars

\* a run that FINISH ended at its first decision: success with no itinerary
C36_Witness ==
  /\ pc = "done" /\ exit = "finish" /\ iteration = 0
  /\ result.success /\ result.itinerary = EmptyDict
  /\ calls.generate = 0

\* C37: every plan_trip call starts from the same state whatever the earlier
\* runs of the agent left: an empty action history, a SessionContext holding
\* the request parameters and nothing else, fresh logs, and the first
\* iteration (or the max-iterations return if no iteration is allowed).
C37_FreshRun ==
  [][(runs' # runs)
       => /\ runs' = runs + 1
          /\ action_history' = << >>
          /\ collected_info' = Request
          /\ \A k \in {"geocode", "weather", "weather_unavailable", "itinerary"} :
                ~Has(collected_info', k)
          /\ iteration' = IF max_iterations > 0 THEN 0 ELSE iteration
          /\ IF max_iterations > 0
             THEN /\ pc' = "decide" /\ result' = None
                  /\ logs' = << Line("--- Iteration", "1") >>
             ELSE /\ pc' = "done" /\ exit' = "max_iterations"
                  /\ result'.itinerary = EmptyDict /\ result'.weather = EmptyList]_vars

\* the start of a second run of the same agent
C37_Witness ==
  /\ runs = 2 /\ pc = "decide" /\ iteration = 0
  /\ collected_info = Request /\ action_history = << >>

\* C38: whenever generate_json returns normally, the returned value is a JSON
\* object, never an array, a string, a number or a literal.
C38_ReturnsObject ==
  json_pc = "returned" => "object" \in DOMAIN json_result

\* a raw control character stands inside a string literal of t, closed or not,
\* from index i on (a quote opens a literal, the next quote that no backslash
\* escapes closes it)
RECURSIVE RawControlInside(_, _, _, _)
RawControlInside(t, i, in_string, escaped) ==
  /\ i <= Len(t)
  /\ IF ~in_string THEN RawControlInside(t, i + 1, t[i] = "\"", FALSE)
     ELSE \/ t[i] \in ControlChars
          \/ IF escaped THEN RawControlInside(t, i + 1, TRUE, FALSE)
             ELSE IF t[i] = "\\" THEN RawControlInside(t, i + 1, TRUE, TRUE)
             ELSE RawControlInside(t, i + 1, t[i] # "\"", FALSE)

\* C39: after _escape_control_chars_in_strings no raw character below 0x20 is
\* left inside a string literal of the output, for every input, strings with
\* backslash escapes included.
C39_NoRawControlInStrings ==
  fn = "_escape_control_chars_in_strings" => ~RawControlInside(out, 1, FALSE, FALSE)


=============================================================================
